---- MODULE Spec2Model ----
(***************************************************************************)
(* MAFM filesystem synchronisation engine: the watchdog event handlers of  *)
(* mafm/observer.py driving the SQLite metadata store (mafm/rag/sqlite.py) *)
(* and the per-directory Milvus collections (mafm/rag/vector_db.py).       *)
(*                                                                         *)
(* A path is a sequence of one-character strings, so that the string       *)
(* operations of the code (LIKE 'prefix%', str.replace, os.path.dirname,   *)
(* substring tests) are computed character by character.                   *)
(***************************************************************************)
EXTENDS Integers, Sequences, FiniteSets, TLC

VARIABLES
    fs,                   \* the filesystem: path -> [is_dir, content, readable]
    file_info,            \* rows of table file_info: [id, file_path, is_dir]
    directory_structure,  \* rows of table directory_structure
    seq_file_info,        \* sqlite_sequence of file_info (AUTOINCREMENT)
    seq_directory_structure,
    vdb,                  \* collection file path -> sequence of entries
    phase,                \* "start" before the initial walk, "watching" after
                          \* it, "stopped" once the observer thread has ended
    event,                \* the event handled by the last step
    outcome,              \* how the last handler ended
    nevents,              \* number of events delivered, or calls made, so far
    dbs,                  \* SQLite database files: file name -> its tables
    call,                 \* the last call of a store or extractor function
    ret,                  \* what that call gave back to its caller
    _model                \* the global _model of mafm/rag/embedding.py

vars == <<fs, file_info, directory_structure, seq_file_info,
          seq_directory_structure, vdb, phase, event, outcome, nevents,
          dbs, call, ret, _model>>

-----------------------------------------------------------------------------
(* Bounds of the model.                                                    *)

\* events delivered after the initial walk
MaxEvents == 2

\* directory levels below the root in which entries are created
MaxDepth == 2

\* characters of a file that is not empty
MaxTextLen == 2

\* calls of the vector store functions in a row
MaxCalls == 3

\* characters of a text that is split into chunks, and the largest chunk size
MaxChunkText == 4

MaxChunkSize == 3

\* rows inserted into one database file
MaxRows == 2

-----------------------------------------------------------------------------
(* Strings.                                                                *)

\* str.startswith
StartsWith(s, p) == Len(p) <= Len(s) /\ SubSeq(s, 1, Len(p)) = p

\* str.endswith
EndsWith(s, p) == Len(p) <= Len(s) /\ SubSeq(s, Len(s) - Len(p) + 1, Len(s)) = p

\* str.find: index of the first occurrence of pat in s, 0 when there is none
Find(s, pat) ==
    LET hits == {i \in 1..(Len(s) - Len(pat) + 1) :
                    SubSeq(s, i, i + Len(pat) - 1) = pat}
    IN IF hits = {} THEN 0 ELSE CHOOSE i \in hits : \A j \in hits : i <= j

\* pat in s
Contains(s, pat) == Find(s, pat) # 0

\* str.rfind("/"): index of the last slash, 0 when there is none
RFindSlash(s) ==
    LET hits == {i \in 1..Len(s) : s[i] = "/"}
    IN IF hits = {} THEN 0 ELSE CHOOSE i \in hits : \A j \in hits : i >= j

\* str.replace(old, new, 1): the first occurrence only
Replace1(s, old, new) ==
    LET i == Find(s, old)
    IN IF i = 0 THEN s
       ELSE SubSeq(s, 1, i - 1) \o new \o SubSeq(s, i + Len(old), Len(s))

\* SQLite folds ASCII upper case to lower case when LIKE compares
Lower(c) ==
    CASE c = "A" -> "a" [] c = "B" -> "b" [] c = "C" -> "c"
      [] c = "F" -> "f" [] c = "G" -> "g" [] c = "X" -> "x"
      [] OTHER -> c

\* SQLite  s LIKE pat : % matches any run of characters, _ any one character,
\* every other character matches itself without regard to ASCII case
RECURSIVE Like(_, _)
Like(s, pat) ==
    IF pat = <<>> THEN s = <<>>
    ELSE IF Head(pat) = "%"
         THEN \E k \in 0..Len(s) : Like(SubSeq(s, k + 1, Len(s)), Tail(pat))
    ELSE IF s = <<>> THEN FALSE
    ELSE IF Head(pat) = "_" \/ Lower(Head(pat)) = Lower(Head(s))
         THEN Like(Tail(s), Tail(pat))
    ELSE FALSE

\* os.path.basename: what follows the last slash
Basename(p) == SubSeq(p, RFindSlash(p) + 1, Len(p))

\* strip trailing slashes
RECURSIVE RStripSlash(_)
RStripSlash(s) ==
    IF s # <<>> /\ s[Len(s)] = "/" THEN RStripSlash(SubSeq(s, 1, Len(s) - 1)) ELSE s

\* os.path.dirname: the head before the last slash, trailing slashes stripped
\* unless the head is made of slashes only
Dirname(p) ==
    LET head == SubSeq(p, 1, RFindSlash(p))
    IN IF head # <<>> /\ \E i \in 1..Len(head) : head[i] # "/"
       THEN RStripSlash(head) ELSE head

\* os.path.join(dirpath, name)
JoinPath(dirpath, name) ==
    IF dirpath # <<>> /\ dirpath[Len(dirpath)] = "/" THEN dirpath \o name
    ELSE dirpath \o <<"/">> \o name

\* p is d or lies below d in the directory tree
IsUnder(p, d) == p = d \/ StartsWith(p, d \o <<"/">>)

-----------------------------------------------------------------------------
(* MetadataStore: mafm/rag/sqlite.py.  A table is the set of its rows; a    *)
(* SELECT without ORDER BY scans the table in rowid order.                 *)

\* the name every caller passes for the metadata database
FilesystemDb == <<"f","i","l","e","s","y","s","t","e","m",".","d","b">>

\* the rows of S as a sequence in ascending id order
RECURSIVE SortById(_)
SortById(S) ==
    IF S = {} THEN <<>>
    ELSE LET m == CHOOSE r \in S : \A q \in S : r.id <= q.id
         IN <<m>> \o SortById(S \ {m})

\* a database file in which both tables have just been created
NewTables ==
    [file_info |-> {}, directory_structure |-> {},
     seq_file_info |-> 0, seq_directory_structure |-> 0]

\* initialize_database: d maps the name of each database file that exists
\* to its tables.  The file db_name is removed when it exists; then
\* sqlite3.connect("filesystem.db") opens, or creates, the file of that
\* fixed name, and CREATE TABLE IF NOT EXISTS leaves its tables as they are
initialize_database(d, db_name) ==
    LET removed == [n \in DOMAIN d \ {db_name} |-> d[n]]
    IN IF FilesystemDb \in DOMAIN removed THEN removed
       ELSE (FilesystemDb :> NewTables) @@ removed

\* an insert that takes the rowid of a table without AUTOINCREMENT: one
\* more than the largest id in the table
insert_file_info_rowid(fi, sfi, file_path, is_dir) ==
    LET ids == {r.id : r \in fi}
        last == IF ids = {} THEN 0 ELSE CHOOSE i \in ids : \A j \in ids : i >= j
    IN [file_info |-> fi \cup {[id |-> last + 1, file_path |-> file_path, is_dir |-> is_dir]},
        seq_file_info |-> IF last + 1 > sfi THEN last + 1 ELSE sfi,
        id |-> last + 1]

\* insert_file_info: INSERT, then SELECT last_insert_rowid()
insert_file_info(fi, sfi, file_path, is_dir) ==
    [file_info |-> fi \cup {[id |-> sfi + 1, file_path |-> file_path, is_dir |-> is_dir]},
     seq_file_info |-> sfi + 1,
     id |-> sfi + 1]

\* insert_directory_structure (column id is declared TEXT: the integer is
\* stored as its decimal text, which names the same id)
insert_directory_structure(ds, sds, dir_id, dir_path, parent_dir_path) ==
    [directory_structure |->
        ds \cup {[record_id |-> sds + 1, id |-> dir_id, dir_path |-> dir_path,
                  parent_dir_path |-> parent_dir_path]},
     seq_directory_structure |-> sds + 1]

\* get_path_by_id: rows[0][0] of SELECT file_path ... WHERE id = ?; with no
\* row, rows[0] raises IndexError
get_path_by_id(fi, file_id) ==
    LET rows == SortById({r \in fi : r.id = file_id})
    IN IF rows = <<>> THEN [raised |-> TRUE, path |-> <<>>]
       ELSE [raised |-> FALSE, path |-> rows[1].file_path]

\* get_id_by_path: rows[0][0] of SELECT id ... WHERE file_path = ?; with no
\* row, rows[0] raises IndexError and no id is returned
get_id_by_path(fi, path) ==
    LET rows == SortById({r \in fi : r.file_path = path})
    IN IF rows = <<>> THEN [raised |-> TRUE, id |-> 0]
       ELSE [raised |-> FALSE, id |-> rows[1].id]

\* get_directory_structure: every dir_path, in record_id order
get_directory_structure(ds) ==
    LET rows == SortById({[id |-> r.record_id, dir_path |-> r.dir_path] : r \in ds})
    IN [i \in 1..Len(rows) |-> rows[i].dir_path]

\* the UPDATE statements of change_directory_path, one per selected path,
\* each applied to the table as the previous ones left it
RECURSIVE RewritePaths(_, _, _, _)
RewritePaths(fi, paths, dir_src_path, dir_dest_path) ==
    IF paths = <<>> THEN fi
    ELSE LET file_path == Head(paths)
             new_file_path == Replace1(file_path, dir_src_path, dir_dest_path)
             updated == {[r EXCEPT !.file_path =
                             IF r.file_path = file_path THEN new_file_path
                             ELSE r.file_path] : r \in fi}
         IN RewritePaths(updated, Tail(paths), dir_src_path, dir_dest_path)

\* the rows change_directory_path selects: file_path LIKE '<dir_src_path>%'
SelectLikePrefix(fi, dir_path) ==
    LET rows == SortById({r \in fi : Like(r.file_path, dir_path \o <<"%">>)})
    IN [i \in 1..Len(rows) |-> rows[i].file_path]

\* change_directory_path
change_directory_path(fi, ds, dir_src_path, dir_dest_path) ==
    [directory_structure |->
        {[r EXCEPT !.dir_path = IF r.dir_path = dir_src_path THEN dir_dest_path
                                ELSE r.dir_path] : r \in ds},
     file_info |->
        RewritePaths(fi, SelectLikePrefix(fi, dir_src_path), dir_src_path, dir_dest_path)]

\* change_file_path: the UPDATE runs in the database db_name names; only
\* filesystem.db holds a table file_info, elsewhere the statement raises
change_file_path(fi, file_src_path, file_dest_path, db_name) ==
    IF db_name # FilesystemDb
    THEN [raised |-> TRUE, file_info |-> fi]
    ELSE [raised |-> FALSE,
          file_info |-> {[r EXCEPT !.file_path =
                             IF r.file_path = file_src_path THEN file_dest_path
                             ELSE r.file_path] : r \in fi}]

\* a delete that matches the directory's own path only (WHERE ... = ?)
delete_directory_exact(fi, ds, dir_path) ==
    [directory_structure |-> {r \in ds : r.dir_path # dir_path},
     file_info |-> {r \in fi : r.file_path # dir_path}]

\* delete_directory_and_subdirectories
delete_directory_and_subdirectories(fi, ds, dir_path) ==
    [directory_structure |-> {r \in ds : ~Like(r.dir_path, dir_path \o <<"%">>)},
     file_info |-> {r \in fi : ~Like(r.file_path, dir_path \o <<"%">>)}]

-----------------------------------------------------------------------------
(* VectorStore: mafm/rag/vector_db.py (observer.py imports these functions *)
(* under the module name mafm.rag.vectorDb).  A collection file that holds *)
(* the collection demo_collection is a key of v; its value is the sequence *)
(* of the entries inserted, in insertion order: ids are not unique, a file *)
(* has one entry per chunk.  f is the filesystem.                          *)

\* the embedding of one text: a function of the text alone
Embed(text) == <<"vector", text>>

\* embedding(queries): one vector per text
embedding(queries) == [i \in 1..Len(queries) |-> Embed(queries[i])]

\* MilvusClient(db_name) opens (creating it when missing) the file db_name,
\* which needs the directory that holds it; f lists the watched root and
\* what is below it, and the directory "/" above the root exists
ClientOpens(f, db_name) ==
    \/ Dirname(db_name) = <<"/">>
    \/ Dirname(db_name) \in DOMAIN f /\ f[Dirname(db_name)].is_dir

\* client.has_collection
has_collection(v, db_name) == db_name \in DOMAIN v

\* v with the collection of db_name set to entries
PutCollection(v, db_name, entries) ==
    [d \in DOMAIN v \cup {db_name} |-> IF d = db_name THEN entries ELSE v[d]]

\* initialize_vector_db: drop, create; an error is raised again
initialize_vector_db(f, v, db_name) ==
    IF ~ClientOpens(f, db_name) THEN [raised |-> TRUE, vdb |-> v]
    ELSE [raised |-> FALSE, vdb |-> PutCollection(v, db_name, <<>>)]

\* delete_vector_db: every error is caught
delete_vector_db(f, v, db_name) ==
    IF ClientOpens(f, db_name) /\ has_collection(v, db_name)
    THEN [d \in DOMAIN v \ {db_name} |-> v[d]]
    ELSE v

\* save: every error is caught; nothing is returned.  The embedding
\* service answers every batch here.
save(f, v, db_name, file_id, queries) ==
    IF ~ClientOpens(f, db_name) \/ ~has_collection(v, db_name) THEN v
    ELSE LET query_embeddings == embedding(queries)
             data == [i \in 1..Len(query_embeddings) |->
                        [id |-> file_id, vector |-> query_embeddings[i],
                         word |-> queries[i]]]
         IN PutCollection(v, db_name, v[db_name] \o data)

\* insert_file_embedding: every error is caught
insert_file_embedding(f, v, file_data, db_name) ==
    IF ~ClientOpens(f, db_name) \/ ~has_collection(v, db_name) THEN v
    ELSE PutCollection(v, db_name, v[db_name] \o file_data)

\* entries of a sequence that satisfy / do not satisfy  id in [x]
RECURSIVE WithId(_, _)
WithId(entries, x) ==
    IF entries = <<>> THEN <<>>
    ELSE (IF Head(entries).id = x THEN <<Head(entries)>> ELSE <<>>)
         \o WithId(Tail(entries), x)

RECURSIVE WithoutId(_, _)
WithoutId(entries, x) ==
    IF entries = <<>> THEN <<>>
    ELSE (IF Head(entries).id # x THEN <<Head(entries)>> ELSE <<>>)
         \o WithoutId(Tail(entries), x)

\* find_by_id: try/finally only, so an error of the client propagates;
\* none is TRUE when None is returned (no collection, or no entry found)
find_by_id(f, v, search_id, db_name) ==
    IF ~ClientOpens(f, db_name) THEN [raised |-> TRUE, none |-> TRUE, res |-> <<>>]
    ELSE IF ~has_collection(v, db_name)
    THEN [raised |-> FALSE, none |-> TRUE, res |-> <<>>]
    ELSE LET res == WithId(v[db_name], search_id)
         IN [raised |-> FALSE, none |-> res = <<>>, res |-> res]

\* remove_by_id: raises when the collection does not exist
remove_by_id(f, v, remove_id, db_name) ==
    IF ~ClientOpens(f, db_name) \/ ~has_collection(v, db_name)
    THEN [raised |-> TRUE, vdb |-> v]
    ELSE [raised |-> FALSE,
          vdb |-> PutCollection(v, db_name, WithoutId(v[db_name], remove_id))]

-----------------------------------------------------------------------------
(* The same functions statement by statement, with the advisory lock file  *)
(* of the engine and the failures of their collaborators.  A call takes    *)
(* the filesystem f, the collection files v and                            *)
(*   env = [open, close, embed]                                            *)
(* telling whether MilvusClient(db_name) and client.close() succeed ("ok") *)
(* or raise ("fails"), and whether the embedding model answers ("ok"),     *)
(* fails while encoding ("none": embedding returns None) or cannot be      *)
(* constructed ("raises": initialize_model raises).  A call yields         *)
(*   [fs, vdb, raised, none, res]                                          *)
(* the filesystem and collections it leaves, whether an exception reaches  *)
(* the caller, whether None is returned, and the list returned otherwise.  *)

\* an environment in which nothing fails
Healthy == [open |-> "ok", close |-> "ok", embed |-> "ok"]

\* lock_file of _delete_db_lock_file: f"{dir_path}/.{base_name}.lock"
lock_file(db_name) ==
    Dirname(db_name) \o <<"/", ".">> \o Basename(db_name) \o <<".","l","o","c","k">>

\* _delete_db_lock_file
_delete_db_lock_file(f, db_name) ==
    IF lock_file(db_name) \in DOMAIN f
    THEN [q \in DOMAIN f \ {lock_file(db_name)} |-> f[q]]
    ELSE f

\* client = MilvusClient(db_name): the engine writes its lock file next to
\* the collection file when it opens it, and leaves it there; client is
\* TRUE when the constructor returned a client
MilvusClient(f, db_name, env) ==
    IF ~ClientOpens(f, db_name) THEN [fs |-> f, client |-> FALSE]
    ELSE [fs |-> (lock_file(db_name) :> [is_dir |-> FALSE, content |-> <<>>, readable |-> TRUE]) @@ f,
          client |-> env.open = "ok"]

\* what the try block of a call gives: the collections and the result
Gives(v, raised, none, res) ==
    [vdb |-> v, raised |-> raised, none |-> none, res |-> res]

\* the finally block: client.close() when there is a client, gc.collect(),
\* _delete_db_lock_file(db_name); an exception of close leaves the block
\* at once and replaces the result of the try block
Finally(o, db_name, env, r) ==
    IF o.client /\ env.close = "fails"
    THEN [fs |-> o.fs, vdb |-> r.vdb, raised |-> TRUE, none |-> TRUE, res |-> <<>>]
    ELSE [fs |-> _delete_db_lock_file(o.fs, db_name), vdb |-> r.vdb,
          raised |-> r.raised, none |-> r.none, res |-> r.res]

\* embedding(queries) with its failures: initialize_model raises, a batch
\* with an element that is not a string raises ValueError, an error of
\* encode gives None
embedding_call(queries, all_str, env) ==
    IF env.embed = "raises" \/ ~all_str
    THEN [raised |-> TRUE, none |-> FALSE, vectors |-> <<>>]
    ELSE IF env.embed = "none"
    THEN [raised |-> FALSE, none |-> TRUE, vectors |-> <<>>]
    ELSE [raised |-> FALSE, none |-> FALSE, vectors |-> embedding(queries)]

\* a collection that keeps its entries when it is created again
initialize_vector_db_keeping(f, v, db_name, env) ==
    LET o == MilvusClient(f, db_name, env)
    IN Finally(o, db_name, env,
               IF ~o.client THEN Gives(v, TRUE, TRUE, <<>>)
               ELSE IF has_collection(v, db_name) THEN Gives(v, FALSE, TRUE, <<>>)
               ELSE Gives(PutCollection(v, db_name, <<>>), FALSE, TRUE, <<>>))

\* initialize_vector_db
initialize_vector_db_call(f, v, db_name, env) ==
    LET o == MilvusClient(f, db_name, env)
    IN Finally(o, db_name, env,
               IF ~o.client THEN Gives(v, TRUE, TRUE, <<>>)
               ELSE Gives(PutCollection(v, db_name, <<>>), FALSE, TRUE, <<>>))

\* delete_vector_db
delete_vector_db_call(f, v, db_name, env) ==
    LET o == MilvusClient(f, db_name, env)
    IN Finally(o, db_name, env,
               IF o.client /\ has_collection(v, db_name)
               THEN Gives([d \in DOMAIN v \ {db_name} |-> v[d]], FALSE, TRUE, <<>>)
               ELSE Gives(v, FALSE, TRUE, <<>>))

\* entries numbered from the file id on, one id per chunk
SaveDataNumbered(file_id, query_embeddings, queries) ==
    [i \in 1..Len(query_embeddings) |->
        [id |-> file_id + i - 1, vector |-> query_embeddings[i], word |-> queries[i]]]

\* the entries save builds from a batch and its vectors
SaveData(file_id, query_embeddings, queries) ==
    [i \in 1..Len(query_embeddings) |->
        [id |-> file_id, vector |-> query_embeddings[i], word |-> queries[i]]]

\* a save that stores the chunks without vectors when the service fails
save_unembedded(f, v, db_name, file_id, queries, all_str, env) ==
    LET o == MilvusClient(f, db_name, env)
    IN Finally(o, db_name, env,
               IF ~o.client \/ ~has_collection(v, db_name)
               THEN Gives(v, FALSE, TRUE, <<>>)
               ELSE LET e == embedding_call(queries, all_str, env)
                        vectors == IF e.raised \/ e.none
                                   THEN [i \in 1..Len(queries) |-> <<>>]
                                   ELSE e.vectors
                    IN Gives(PutCollection(v, db_name,
                                 v[db_name] \o SaveData(file_id, vectors, queries)),
                             FALSE, TRUE, <<>>))

\* save
save_call(f, v, db_name, file_id, queries, all_str, env) ==
    LET o == MilvusClient(f, db_name, env)
    IN Finally(o, db_name, env,
               IF ~o.client \/ ~has_collection(v, db_name)
               THEN Gives(v, FALSE, TRUE, <<>>)
               ELSE LET e == embedding_call(queries, all_str, env)
                    IN IF e.raised \/ e.none THEN Gives(v, FALSE, TRUE, <<>>)
                       ELSE Gives(PutCollection(v, db_name,
                                      v[db_name] \o SaveData(file_id, e.vectors, queries)),
                                  FALSE, TRUE, <<>>))

\* insert_file_embedding
insert_file_embedding_call(f, v, file_data, db_name, env) ==
    LET o == MilvusClient(f, db_name, env)
    IN Finally(o, db_name, env,
               IF ~o.client \/ ~has_collection(v, db_name)
               THEN Gives(v, FALSE, TRUE, <<>>)
               ELSE Gives(PutCollection(v, db_name, v[db_name] \o file_data),
                          FALSE, TRUE, <<>>))

\* a lookup that returns the first entry of the id only
find_first_by_id(f, v, search_id, db_name, env) ==
    LET o == MilvusClient(f, db_name, env)
    IN Finally(o, db_name, env,
               IF ~o.client THEN Gives(v, TRUE, TRUE, <<>>)
               ELSE IF ~has_collection(v, db_name) THEN Gives(v, FALSE, TRUE, <<>>)
               ELSE LET res == WithId(v[db_name], search_id)
                    IN Gives(v, FALSE, res = <<>>,
                             IF res = <<>> THEN <<>> ELSE <<Head(res)>>))

\* find_by_id
find_by_id_call(f, v, search_id, db_name, env) ==
    LET o == MilvusClient(f, db_name, env)
    IN Finally(o, db_name, env,
               IF ~o.client THEN Gives(v, TRUE, TRUE, <<>>)
               ELSE IF ~has_collection(v, db_name) THEN Gives(v, FALSE, TRUE, <<>>)
               ELSE LET res == WithId(v[db_name], search_id)
                    IN Gives(v, FALSE, res = <<>>, res))

\* a delete that removes the first matching entry only
remove_first_by_id(f, v, remove_id, db_name, env) ==
    LET o == MilvusClient(f, db_name, env)
    IN Finally(o, db_name, env,
               IF ~o.client \/ ~has_collection(v, db_name)
               THEN Gives(v, TRUE, TRUE, <<>>)
               ELSE LET hits == {i \in 1..Len(v[db_name]) : v[db_name][i].id = remove_id}
                        first == IF hits = {} THEN 0
                                 ELSE CHOOSE i \in hits : \A j \in hits : i <= j
                    IN Gives(PutCollection(v, db_name,
                                 SubSeq(v[db_name], 1, first - 1)
                                 \o SubSeq(v[db_name], first + 1, Len(v[db_name]))),
                             FALSE, FALSE, <<>>))

\* remove_by_id: the result of client.delete is returned
remove_by_id_call(f, v, remove_id, db_name, env) ==
    LET o == MilvusClient(f, db_name, env)
    IN Finally(o, db_name, env,
               IF ~o.client \/ ~has_collection(v, db_name)
               THEN Gives(v, TRUE, TRUE, <<>>)
               ELSE Gives(PutCollection(v, db_name, WithoutId(v[db_name], remove_id)),
                          FALSE, FALSE, <<>>))

\* how far two vectors are apart; the vector of a text stands for the text,
\* and texts of the same length are the nearest
Distance(u, w) ==
    IF Len(u[2]) >= Len(w[2]) THEN Len(u[2]) - Len(w[2]) ELSE Len(w[2]) - Len(u[2])

\* the hits of one query vector: up to limit entries not yet taken, the
\* nearest first, the earlier entry first among equally near ones
RECURSIVE Nearest(_, _, _, _)
Nearest(entries, taken, vector, limit) ==
    LET left == (1..Len(entries)) \ taken
    IN IF limit = 0 \/ left = {} THEN <<>>
       ELSE LET best == CHOOSE i \in left : \A j \in left :
                            \/ Distance(entries[i].vector, vector)
                                 < Distance(entries[j].vector, vector)
                            \/ /\ Distance(entries[i].vector, vector)
                                    = Distance(entries[j].vector, vector)
                               /\ i <= j
            IN <<entries[best]>> \o Nearest(entries, taken \cup {best}, vector, limit - 1)

\* client.search(data=query_vectors, limit=limit): one list of hits per
\* query vector
client_search(entries, query_vectors, limit) ==
    [k \in 1..Len(query_vectors) |-> Nearest(entries, {}, query_vectors[k], limit)]

\* search: try/finally only.  No collection, or no vectors, gives [];
\* id_list is read from res[0], the hits of the first query, which raises
\* IndexError when there is no query; each id is turned into the path of
\* its file_info row by get_path_by_id, which raises when there is no row
search_call(f, v, fi, db_name, query_list, all_str, env) ==
    LET o == MilvusClient(f, db_name, env)
    IN Finally(o, db_name, env,
               IF ~o.client THEN Gives(v, TRUE, TRUE, <<>>)
               ELSE IF ~has_collection(v, db_name) THEN Gives(v, FALSE, FALSE, <<>>)
               ELSE LET e == embedding_call(query_list, all_str, env)
                    IN IF e.raised THEN Gives(v, TRUE, TRUE, <<>>)
                       ELSE IF e.none THEN Gives(v, FALSE, FALSE, <<>>)
                       ELSE LET res == client_search(v[db_name], e.vectors, 2)
                            IN IF res = <<>> THEN Gives(v, TRUE, TRUE, <<>>)
                               ELSE LET id_list == [i \in 1..Len(res[1]) |-> res[1][i].id]
                                        rows == [i \in 1..Len(id_list) |->
                                                    get_path_by_id(fi, id_list[i])]
                                    IN IF \E i \in 1..Len(rows) : rows[i].raised
                                       THEN Gives(v, TRUE, TRUE, <<>>)
                                       ELSE Gives(v, FALSE, FALSE,
                                                  [i \in 1..Len(rows) |-> rows[i].path]))

\* the embedding model, statement by statement.  m is the value of the
\* global _model; a call yields the value it leaves in model, whether an
\* exception reaches the caller, whether the constructor of
\* SentenceTransformer was called (attempted) and returned (constructed).

\* _model before a model was constructed, and the model once constructed
NoModel == "None"

SentenceTransformer == "SentenceTransformer"

\* an initialize_model without its first test, which constructs a model on
\* every call
initialize_model_again(m, constructs) ==
    IF constructs
    THEN [model |-> SentenceTransformer, raised |-> FALSE,
          attempted |-> TRUE, constructed |-> TRUE]
    ELSE [model |-> m, raised |-> TRUE, attempted |-> TRUE, constructed |-> FALSE]

\* initialize_model: returns at once when _model is not None; _model is
\* assigned when the constructor returns, and its exception is raised again
initialize_model(m, constructs) ==
    IF m # NoModel
    THEN [model |-> m, raised |-> FALSE, attempted |-> FALSE, constructed |-> FALSE]
    ELSE IF constructs
    THEN [model |-> SentenceTransformer, raised |-> FALSE,
          attempted |-> TRUE, constructed |-> TRUE]
    ELSE [model |-> m, raised |-> TRUE, attempted |-> TRUE, constructed |-> FALSE]

\* embedding(queries): initialize_model() when _model is None, outside the
\* try block; ValueError for a batch with an element that is not a string
\* is raised again; another error of encode gives None
embedding_model(m, queries, all_str, constructs, encodes) ==
    LET i == IF m = NoModel THEN initialize_model(m, constructs)
             ELSE [model |-> m, raised |-> FALSE,
                   attempted |-> FALSE, constructed |-> FALSE]
        gives(raised, none, vectors) ==
            [model |-> i.model, attempted |-> i.attempted, constructed |-> i.constructed,
             raised |-> raised, none |-> none, vectors |-> vectors]
    IN IF i.raised THEN gives(TRUE, FALSE, <<>>)
       ELSE IF i.model = NoModel THEN gives(FALSE, TRUE, <<>>)
       ELSE IF ~all_str THEN gives(TRUE, FALSE, <<>>)
       ELSE IF ~encodes THEN gives(FALSE, TRUE, <<>>)
       ELSE gives(FALSE, FALSE, embedding(queries))

-----------------------------------------------------------------------------
(* ContentExtractor: mafm/rag/fileops.py and the readers of observer.py.   *)

DEFAULT_CHUNK_SIZE == 500

BINARY_EXTENSIONS ==
    {<<".","j","p","g">>, <<".","j","p","e","g">>, <<".","p","n","g">>,
     <<".","g","i","f">>, <<".","b","m","p">>, <<".","m","p","4">>,
     <<".","a","v","i">>, <<".","m","p","3">>, <<".","w","a","v">>,
     <<".","p","d","f">>}

\* pathlib's Path(path).suffix: from the last dot of the final component,
\* empty when that dot leads or ends the name
Suffix(path) ==
    LET name == Basename(path)
        dots == {i \in 1..Len(name) : name[i] = "."}
        last == IF dots = {} THEN 0 ELSE CHOOSE i \in dots : \A j \in dots : i >= j
    IN IF last <= 1 \/ last = Len(name) THEN <<>>
       ELSE SubSeq(name, last, Len(name))

\* _is_binary_file
_is_binary_file(path) ==
    [i \in 1..Len(Suffix(path)) |-> Lower(Suffix(path)[i])] \in BINARY_EXTENSIONS

\* a split that keeps the chunks of full size only
split_text_into_full_chunks(text, chunk_size) ==
    [k \in 1..(Len(text) \div chunk_size) |->
        SubSeq(text, (k - 1) * chunk_size + 1, k * chunk_size)]

\* [text[i : i + chunk_size] for i in range(0, len(text), chunk_size)]
split_text_into_chunks(text, chunk_size) ==
    [k \in 1..((Len(text) + chunk_size - 1) \div chunk_size) |->
        SubSeq(text, (k - 1) * chunk_size + 1,
               IF k * chunk_size <= Len(text) THEN k * chunk_size ELSE Len(text))]

\* a read that goes on when open() fails, as if the file were empty or
\* its text at hand
get_file_data_unguarded(f, path, chunk_size) ==
    LET data == <<path, Basename(path)>>
    IN IF _is_binary_file(path) THEN data
       ELSE data \o split_text_into_chunks(f[path].content, chunk_size)

\* get_file_data: [path, filename] and, for a file that is not binary, the
\* chunks of its content; the OSError of a file that cannot be read is
\* caught, and data stays [path, filename]
get_file_data(f, path, chunk_size) ==
    LET data == <<path, Basename(path)>>
    IN IF _is_binary_file(path) THEN data
       ELSE IF ~f[path].readable THEN data
       ELSE data \o split_text_into_chunks(f[path].content, chunk_size)

\* read_pdf: the text of the pages, which the model keeps as the content of
\* the file; pdfplumber.open raises for a file it cannot open or parse, and
\* nothing in read_pdf catches it
read_pdf(f, file_path) ==
    IF f[file_path].readable THEN [raised |-> FALSE, text |-> f[file_path].content]
    ELSE [raised |-> TRUE, text |-> <<>>]

\* read_word: the text of the paragraphs; Document(file_path) raises alike
read_word(f, file_path) ==
    IF f[file_path].readable THEN [raised |-> FALSE, text |-> f[file_path].content]
    ELSE [raised |-> TRUE, text |-> <<>>]

\* the branch of a document: its text, split; an exception of the reader
\* is passed on
DocumentChunks(r) ==
    [raised |-> r.raised,
     text_chunks |-> IF r.raised THEN <<>>
                     ELSE split_text_into_chunks(r.text, DEFAULT_CHUNK_SIZE)]

\* _extract_file_content
_extract_file_content(f, file_path) ==
    IF EndsWith(file_path, <<".","p","d","f">>)
    THEN DocumentChunks(read_pdf(f, file_path))
    ELSE IF EndsWith(file_path, <<".","d","o","c","x">>)
    THEN DocumentChunks(read_word(f, file_path))
    ELSE LET file_chunks == get_file_data(f, file_path, DEFAULT_CHUNK_SIZE)
         IN [raised |-> FALSE, text_chunks |-> SubSeq(file_chunks, 3, Len(file_chunks))]

-----------------------------------------------------------------------------
(* SyncEngine: FileEventHandler of mafm/observer.py.  A handler takes the  *)
(* filesystem f as the event left it and the stores                        *)
(*   st = [file_info, directory_structure, seq_file_info,                  *)
(*         seq_directory_structure, vdb]                                   *)
(* and yields the stores it leaves and how it ended: "ignored", "ok", or   *)
(* "raised" when an exception leaves the handler.                          *)

IGNORED_PATTERNS == {<<"d","b","-","j","o","u","r","n","a","l">>, <<".","d","b">>}

_is_dot_file(path) == StartsWith(Basename(path), <<".">>)

_is_ignored_file(path) == \E pattern \in IGNORED_PATTERNS : Contains(path, pattern)

\* a filter that knows hidden names only
_should_ignore_hidden(path) == _is_dot_file(path)

_should_ignore(path) == _is_dot_file(path) \/ _is_ignored_file(path)

\* f"{dir_path}/{os.path.basename(dir_path)}.db"
DbName(dir_path) ==
    dir_path \o <<"/">> \o Basename(dir_path) \o <<".","d","b">>

\* on_deleted, is_directory
on_deleted_directory(f, st, ev) ==
    LET dir_path == ev.src_path
        db_name == DbName(dir_path)
        v1 == delete_vector_db(f, st.vdb, db_name)
        del == delete_directory_and_subdirectories(
                   st.file_info, st.directory_structure, dir_path)
    IN [st |-> [st EXCEPT !.vdb = v1,
                          !.file_info = del.file_info,
                          !.directory_structure = del.directory_structure],
        outcome |-> "ok"]

\* on_deleted, a file
on_deleted_file(f, st, ev) ==
    LET file_path == ev.src_path
        db_name == DbName(Dirname(file_path))
        file_id == get_id_by_path(st.file_info, file_path)
    IN IF file_id.raised THEN [st |-> st, outcome |-> "raised"]
       ELSE LET rm == remove_by_id(f, st.vdb, file_id.id, db_name)
            IN [st |-> [st EXCEPT !.vdb = rm.vdb],
                outcome |-> IF rm.raised THEN "raised" ELSE "ok"]

\* on_deleted
on_deleted(f, st, ev) ==
    IF _should_ignore(ev.src_path) THEN [st |-> st, outcome |-> "ignored"]
    ELSE IF ev.is_directory THEN on_deleted_directory(f, st, ev)
    ELSE on_deleted_file(f, st, ev)

\* _move_file
_move_file(f, st, file_src_path, file_dest_path) ==
    LET dir_path == Dirname(file_src_path)
        db_name == DbName(dir_path)
        file_id == get_id_by_path(st.file_info, file_src_path)
    IN IF file_id.raised THEN [st |-> st, outcome |-> "raised"]
       ELSE
       LET file_data == find_by_id(f, st.vdb, file_id.id, db_name)
       IN IF file_data.raised THEN [st |-> st, outcome |-> "raised"]
          ELSE
          LET v1 == IF ~file_data.none
                    THEN insert_file_embedding(f, st.vdb, file_data.res, db_name)
                    ELSE st.vdb
              rm == remove_by_id(f, v1, file_id.id, db_name)
          IN IF rm.raised THEN [st |-> [st EXCEPT !.vdb = rm.vdb], outcome |-> "raised"]
             ELSE
             LET ch == change_file_path(st.file_info, file_src_path,
                                        file_dest_path, db_name)
             IN [st |-> [st EXCEPT !.vdb = rm.vdb, !.file_info = ch.file_info],
                 outcome |-> IF ch.raised THEN "raised" ELSE "ok"]

\* on_moved
on_moved(f, st, ev) ==
    IF _should_ignore(ev.src_path) \/ _should_ignore(ev.dest_path)
    THEN [st |-> st, outcome |-> "ignored"]
    ELSE IF ev.is_directory
    THEN LET ch == change_directory_path(st.file_info, st.directory_structure,
                                         ev.src_path, ev.dest_path)
         IN [st |-> [st EXCEPT !.file_info = ch.file_info,
                               !.directory_structure = ch.directory_structure],
             outcome |-> "ok"]
    ELSE _move_file(f, st, ev.src_path, ev.dest_path)

\* on_created, is_directory: the try block and its except clause
on_created_directory(f, st, ev) ==
    LET absolute_file_path == ev.src_path
        dirpath == Dirname(absolute_file_path)
        dirname == Basename(dirpath)
        init == initialize_vector_db(f, st.vdb, dirpath \o <<"/">> \o dirname \o <<".","d","b">>)
    IN IF init.raised THEN [st |-> st, outcome |-> "ok"]
       ELSE
       LET ins == insert_file_info(st.file_info, st.seq_file_info, absolute_file_path, 1)
           edge == insert_directory_structure(
                       st.directory_structure, st.seq_directory_structure,
                       ins.id, dirpath, Dirname(dirpath))
       IN [st |-> [vdb |-> init.vdb,
                   file_info |-> ins.file_info,
                   seq_file_info |-> ins.seq_file_info,
                   directory_structure |-> edge.directory_structure,
                   seq_directory_structure |-> edge.seq_directory_structure],
           outcome |-> "ok"]

\* on_created, a file: nothing is caught, so an exception of the reader
\* leaves the handler after the row was inserted
on_created_file(f, st, ev) ==
    LET absolute_file_path == ev.src_path
        dirpath == Dirname(absolute_file_path)
        dirname == Basename(dirpath)
        ins == insert_file_info(st.file_info, st.seq_file_info, absolute_file_path, 0)
        ext == _extract_file_content(f, absolute_file_path)
        v1 == save(f, st.vdb, dirpath \o <<"/">> \o dirname \o <<".","d","b">>,
                   get_id_by_path(ins.file_info, absolute_file_path).id, ext.text_chunks)
    IN IF ext.raised
       THEN [st |-> [st EXCEPT !.file_info = ins.file_info,
                               !.seq_file_info = ins.seq_file_info],
             outcome |-> "raised"]
       ELSE [st |-> [st EXCEPT !.file_info = ins.file_info,
                               !.seq_file_info = ins.seq_file_info,
                               !.vdb = v1],
             outcome |-> "ok"]

\* on_created
on_created(f, st, ev) ==
    IF _should_ignore(ev.src_path) THEN [st |-> st, outcome |-> "ignored"]
    ELSE IF ev.is_directory THEN on_created_directory(f, st, ev)
    ELSE on_created_file(f, st, ev)

-----------------------------------------------------------------------------
(* The initial walk: start_command_c of mafm/observer.py.                  *)

\* the watched root; root[:root.rfind("/")] is its parent
Root == <<"/","a">>

\* names of the entries the environment creates, and the order in which a
\* directory scan lists them
DirNames == {<<"b">>, <<"b","x">>, <<"c">>}

FileNames == {<<"f">>, <<".","h">>}

\* further names: a hidden directory, a document and an image with binary
\* extensions, and a file with the extension of the database files
HiddenDir == <<".","g">>

PdfName == <<"p",".","p","d","f">>

PngName == <<"p",".","P","N","G">>

DbFileName == <<"b",".","d","b">>

MoreDirNames == {<<"b">>, HiddenDir}

MoreFileNames == {<<"f">>, <<".","h">>, PdfName, PngName, DbFileName}

ScanOrder ==
    <<(<<"b">>), (<<"b","x">>), (<<"c">>), HiddenDir,
      (<<"f">>), (<<".","h">>), PdfName, PngName, DbFileName>>

\* os.walk's dirnames and filenames of dirpath, as sequences
SelectNames(f, dirpath, dirs) ==
    SelectSeq(ScanOrder,
              LAMBDA n : /\ JoinPath(dirpath, n) \in DOMAIN f
                         /\ f[JoinPath(dirpath, n)].is_dir = dirs)

\* for dirname in dirnames
RECURSIVE WalkDirnames(_, _, _, _)
WalkDirnames(f, st, dirpath, dirnames) ==
    IF dirnames = <<>> THEN st
    ELSE
    LET dirname == Head(dirnames)
        full_path == JoinPath(dirpath, dirname)
        init == initialize_vector_db(
                    f, st.vdb, full_path \o <<"/">> \o dirname \o <<".","d","b">>)
    IN IF init.raised THEN WalkDirnames(f, st, dirpath, Tail(dirnames))
       ELSE
       LET ins == insert_file_info(st.file_info, st.seq_file_info, full_path, 1)
           edge == insert_directory_structure(
                       st.directory_structure, st.seq_directory_structure,
                       ins.id, full_path, dirpath)
       IN WalkDirnames(f,
                       [vdb |-> init.vdb,
                        file_info |-> ins.file_info,
                        seq_file_info |-> ins.seq_file_info,
                        directory_structure |-> edge.directory_structure,
                        seq_directory_structure |-> edge.seq_directory_structure],
                       dirpath, Tail(dirnames))

\* for filename in filenames: the stores it leaves, and whether an
\* exception left the loop; nothing in the loop catches the exception of
\* read_pdf or read_word, which ends the walk after the row was inserted
RECURSIVE WalkFilenames(_, _, _, _)
WalkFilenames(f, st, dirpath, filenames) ==
    IF filenames = <<>> THEN [st |-> st, raised |-> FALSE]
    ELSE
    LET filename == Head(filenames)
    IN IF StartsWith(filename, <<".">>) \/ EndsWith(filename, <<".","d","b">>)
       THEN WalkFilenames(f, st, dirpath, Tail(filenames))
       ELSE
       LET full_path == JoinPath(dirpath, filename)
           ins == insert_file_info(st.file_info, st.seq_file_info, full_path, 0)
           ext ==
               IF EndsWith(filename, <<".","p","d","f">>)
               THEN DocumentChunks(read_pdf(f, full_path))
               ELSE IF EndsWith(filename, <<".","d","o","c","x">>)
               THEN DocumentChunks(read_word(f, full_path))
               ELSE LET file_chunks == get_file_data(f, full_path, DEFAULT_CHUNK_SIZE)
                    IN [raised |-> FALSE,
                        text_chunks |-> SubSeq(file_chunks, 3, Len(file_chunks))]
           dirname == Basename(dirpath)    \* dirpath.split("/")[-1]
           v1 == save(f, st.vdb, dirpath \o <<"/">> \o dirname \o <<".","d","b">>,
                      ins.id, ext.text_chunks)
       IN IF ext.raised
          THEN [st |-> [st EXCEPT !.file_info = ins.file_info,
                                  !.seq_file_info = ins.seq_file_info],
                raised |-> TRUE]
          ELSE WalkFilenames(f,
                             [st EXCEPT !.file_info = ins.file_info,
                                        !.seq_file_info = ins.seq_file_info,
                                        !.vdb = v1],
                             dirpath, Tail(filenames))

\* for dirpath, dirnames, filenames in os.walk(root): top-down, a
\* directory before the directories below it; pending holds the
\* directories still to visit
RECURSIVE OsWalk(_, _, _)
OsWalk(f, st, pending) ==
    IF pending = <<>> THEN [st |-> st, raised |-> FALSE]
    ELSE
    LET dirpath == Head(pending)
        dirnames == SelectNames(f, dirpath, TRUE)
        filenames == SelectNames(f, dirpath, FALSE)
        st1 == WalkDirnames(f, st, dirpath, dirnames)
        w == WalkFilenames(f, st1, dirpath, filenames)
    IN IF w.raised THEN w
       ELSE OsWalk(f, w.st,
                   [i \in 1..Len(dirnames) |-> JoinPath(dirpath, dirnames[i])]
                       \o Tail(pending))

\* start_command_c: the stores it leaves, and whether an exception left it
start_command_c(f, v, root) ==
    LET db == initialize_database(<<>>, FilesystemDb)[FilesystemDb]
        init == initialize_vector_db(f, v, DbName(root))
    IN IF init.raised
       THEN [st |-> [vdb |-> v,
                     file_info |-> db.file_info,
                     seq_file_info |-> db.seq_file_info,
                     directory_structure |-> db.directory_structure,
                     seq_directory_structure |-> db.seq_directory_structure],
             raised |-> FALSE]
       ELSE
       LET ins == insert_file_info(db.file_info, db.seq_file_info, root, 1)
           root_parent == SubSeq(root, 1, RFindSlash(root) - 1)
           edge == insert_directory_structure(
                       db.directory_structure, db.seq_directory_structure,
                       ins.id, root, root_parent)
       IN OsWalk(f,
                 [vdb |-> init.vdb,
                  file_info |-> ins.file_info,
                  seq_file_info |-> ins.seq_file_info,
                  directory_structure |-> edge.directory_structure,
                  seq_directory_structure |-> edge.seq_directory_structure],
                 <<root>>)

-----------------------------------------------------------------------------
(* The initial walk of the shell: start_command_c of mafm/shell.py.  It    *)
(* keeps the id of the last directory inserted in its variable id.         *)

\* for dirname in dirnames: the stores and the value of id it leaves
RECURSIVE ShellWalkDirnames(_, _, _, _, _)
ShellWalkDirnames(f, st, id, dirpath, dirnames) ==
    IF dirnames = <<>> THEN [st |-> st, id |-> id]
    ELSE
    LET dirname == Head(dirnames)
        full_path == JoinPath(dirpath, dirname)
        init == initialize_vector_db(
                    f, st.vdb, full_path \o <<"/">> \o dirname \o <<".","d","b">>)
    IN IF init.raised THEN ShellWalkDirnames(f, st, id, dirpath, Tail(dirnames))
       ELSE
       LET ins == insert_file_info(st.file_info, st.seq_file_info, full_path, 1)
           edge == insert_directory_structure(
                       st.directory_structure, st.seq_directory_structure,
                       ins.id, full_path, dirpath)
       IN ShellWalkDirnames(f,
                            [vdb |-> init.vdb,
                             file_info |-> ins.file_info,
                             seq_file_info |-> ins.seq_file_info,
                             directory_structure |-> edge.directory_structure,
                             seq_directory_structure |-> edge.seq_directory_structure],
                            ins.id, dirpath, Tail(dirnames))

\* for filename in filenames: the id that insert_file_info returns is not
\* kept, every file goes through get_file_data, and save is given id
RECURSIVE ShellWalkFilenames(_, _, _, _, _)
ShellWalkFilenames(f, st, id, dirpath, filenames) ==
    IF filenames = <<>> THEN st
    ELSE
    LET filename == Head(filenames)
    IN IF StartsWith(filename, <<".">>) \/ EndsWith(filename, <<".","d","b">>)
       THEN ShellWalkFilenames(f, st, id, dirpath, Tail(filenames))
       ELSE
       LET full_path == JoinPath(dirpath, filename)
           ins == insert_file_info(st.file_info, st.seq_file_info, full_path, 0)
           file_chunks == get_file_data(f, full_path, DEFAULT_CHUNK_SIZE)
           dirname == Basename(dirpath)    \* dirpath.split("/")[-1]
           v1 == save(f, st.vdb, dirpath \o <<"/">> \o dirname \o <<".","d","b">>,
                      id, SubSeq(file_chunks, 3, Len(file_chunks)))
       IN ShellWalkFilenames(f,
                             [st EXCEPT !.file_info = ins.file_info,
                                        !.seq_file_info = ins.seq_file_info,
                                        !.vdb = v1],
                             id, dirpath, Tail(filenames))

\* for dirpath, dirnames, filenames in os.walk(root)
RECURSIVE ShellOsWalk(_, _, _, _)
ShellOsWalk(f, st, id, pending) ==
    IF pending = <<>> THEN st
    ELSE
    LET dirpath == Head(pending)
        dirnames == SelectNames(f, dirpath, TRUE)
        filenames == SelectNames(f, dirpath, FALSE)
        d == ShellWalkDirnames(f, st, id, dirpath, dirnames)
        st2 == ShellWalkFilenames(f, d.st, d.id, dirpath, filenames)
    IN ShellOsWalk(f, st2, d.id,
                   [i \in 1..Len(dirnames) |-> JoinPath(dirpath, dirnames[i])]
                       \o Tail(pending))

\* start_command_c of the shell: the collection of the root is root + ".db"
shell_start_command_c(f, v, root) ==
    LET db == initialize_database(<<>>, FilesystemDb)[FilesystemDb]
        init == initialize_vector_db(f, v, root \o <<".","d","b">>)
    IN IF init.raised
       THEN [vdb |-> v,
             file_info |-> db.file_info,
             seq_file_info |-> db.seq_file_info,
             directory_structure |-> db.directory_structure,
             seq_directory_structure |-> db.seq_directory_structure]
       ELSE
       LET ins == insert_file_info(db.file_info, db.seq_file_info, root, 1)
           root_parent == SubSeq(root, 1, RFindSlash(root) - 1)
           edge == insert_directory_structure(
                       db.directory_structure, db.seq_directory_structure,
                       ins.id, root, root_parent)
       IN ShellOsWalk(f,
                      [vdb |-> init.vdb,
                       file_info |-> ins.file_info,
                       seq_file_info |-> ins.seq_file_info,
                       directory_structure |-> edge.directory_structure,
                       seq_directory_structure |-> edge.seq_directory_structure],
                      ins.id, <<root>>)

-----------------------------------------------------------------------------
(* The filesystem under the watched root, and the events it reports.       *)

\* a text of n characters
Text(n) == [i \in 1..n |-> "x"]

\* contents of the files: empty, and not empty
Texts == {Text(0), Text(MaxTextLen)}

\* an entry of the filesystem: a directory, or a file with its text;
\* readable tells whether the file can be opened and its text read
Dir == [is_dir |-> TRUE, content |-> <<>>, readable |-> TRUE]

File(text) == [is_dir |-> FALSE, content |-> text, readable |-> TRUE]

\* a file that cannot be opened, or a document that cannot be parsed
Unreadable(text) == [is_dir |-> FALSE, content |-> text, readable |-> FALSE]

\* directory levels of p below the root
Depth(p) == Cardinality({i \in 1..Len(p) : p[i] = "/"}) - 1

\* the trees the walk may find: the parent-closed parts of
\*   /a/b  /a/b/c  /a/bx  /a/bx/f  /a/f
BaseTree ==
    LET b == JoinPath(Root, <<"b">>)
        bx == JoinPath(Root, <<"b","x">>)
        long == File(Text(MaxTextLen))
    IN (b :> Dir) @@ (JoinPath(b, <<"c">>) :> Dir)
       @@ (bx :> Dir) @@ (JoinPath(bx, <<"f">>) :> long)
       @@ (JoinPath(Root, <<"f">>) :> long)

InitialTrees ==
    {[p \in P \cup {Root} |-> IF p = Root THEN Dir ELSE BaseTree[p]] :
        P \in {Q \in SUBSET DOMAIN BaseTree :
                 \A q \in Q : Dirname(q) = Root \/ Dirname(q) \in Q}}

\* no call of a store function was made, and nothing was given back
NoCall == [op |-> "none"]

NoRet == [raised |-> FALSE, none |-> TRUE, res |-> <<>>]

NoEvent == [kind |-> "none", is_directory |-> FALSE, src_path |-> <<>>, dest_path |-> <<>>]

Event(kind, is_directory, src_path, dest_path) ==
    [kind |-> kind, is_directory |-> is_directory,
     src_path |-> src_path, dest_path |-> dest_path]

\* the stores, as the handlers take them
Stores ==
    [vdb |-> vdb, file_info |-> file_info, seq_file_info |-> seq_file_info,
     directory_structure |-> directory_structure,
     seq_directory_structure |-> seq_directory_structure]

\* the stores and the outcome a handler leaves.  The observer thread calls
\* the handler from its dispatch loop and catches nothing: an exception
\* that leaves the handler ends the thread, and no later event is handled.
Leaves(r, ev) ==
    /\ vdb' = r.st.vdb
    /\ file_info' = r.st.file_info
    /\ seq_file_info' = r.st.seq_file_info
    /\ directory_structure' = r.st.directory_structure
    /\ seq_directory_structure' = r.st.seq_directory_structure
    /\ outcome' = r.outcome
    /\ event' = ev
    /\ nevents' = nevents + 1
    /\ phase' = IF r.outcome = "raised" THEN "stopped" ELSE phase
    /\ UNCHANGED <<dbs, call, ret, _model>>

\* the paths a new entry of the given kind may take
FreePaths(f, names) ==
    {JoinPath(d, n) : d \in {q \in DOMAIN f : f[q].is_dir /\ Depth(q) < MaxDepth},
                      n \in names} \ DOMAIN f

\* p with the leading src replaced by dest, for p at or below src
Rebase(p, src, dest) ==
    IF IsUnder(p, src) THEN dest \o SubSeq(p, Len(src) + 1, Len(p)) ELSE p

\* the filesystem after rename(src, dest)
Renamed(f, src, dest) ==
    [q \in {Rebase(p, src, dest) : p \in DOMAIN f} |->
        f[CHOOSE p \in DOMAIN f : Rebase(p, src, dest) = q]]

\* the collection files after rename(src, dest) of a directory: they move
\* with the directory that holds them
RenamedDb(v, src, dest) ==
    [q \in {Rebase(p, src, dest) : p \in DOMAIN v} |->
        v[CHOOSE p \in DOMAIN v : Rebase(p, src, dest) = q]]

\* the filesystem and the collection files after the tree at p is removed
Removed(f, p) == [q \in {q \in DOMAIN f : ~IsUnder(q, p)} |-> f[q]]

RemovedDb(v, p) == [q \in {q \in DOMAIN v : ~IsUnder(q, p)} |-> v[q]]

Init ==
    /\ fs \in InitialTrees
    /\ file_info = {}
    /\ directory_structure = {}
    /\ seq_file_info = 0
    /\ seq_directory_structure = 0
    /\ vdb = <<>>
    /\ phase = "start"
    /\ event = NoEvent
    /\ outcome = "none"
    /\ nevents = 0
    /\ dbs = <<>>
    /\ call = NoCall
    /\ ret = NoRet
    /\ _model = NoModel

\* start_watchdog: the initial walk, before the observer is started.  Of
\* the exceptions of the walk it catches IndexError and FileNotFoundError
\* only: that of a document which cannot be read leaves start_watchdog, and
\* the observer is never started.
Walk ==
    /\ phase = "start"
    /\ LET w == start_command_c(fs, vdb, Root)
       IN /\ vdb' = w.st.vdb
          /\ file_info' = w.st.file_info
          /\ seq_file_info' = w.st.seq_file_info
          /\ directory_structure' = w.st.directory_structure
          /\ seq_directory_structure' = w.st.seq_directory_structure
          /\ phase' = IF w.raised THEN "stopped" ELSE "watching"
          /\ outcome' = IF w.raised THEN "raised" ELSE "ok"
    /\ event' = Event("walk", TRUE, Root, <<>>)
    /\ UNCHANGED <<fs, nevents, dbs, call, ret, _model>>

\* mkdir p with a name among names, and the Created event it reports
CreateDirectoryOf(names) ==
    /\ phase = "watching" /\ nevents < MaxEvents
    /\ \E p \in FreePaths(fs, names) :
         LET f == (p :> Dir) @@ fs
             ev == Event("created", TRUE, p, <<>>)
         IN fs' = f /\ Leaves(on_created(f, Stores, ev), ev)

CreateDirectory == CreateDirectoryOf(DirNames)

\* a new file p with a name among names, and the Created event it reports
CreateFileOf(names) ==
    /\ phase = "watching" /\ nevents < MaxEvents
    /\ \E p \in FreePaths(fs, names), text \in Texts :
         LET f == (p :> File(text)) @@ fs
             ev == Event("created", FALSE, p, <<>>)
         IN fs' = f /\ Leaves(on_created(f, Stores, ev), ev)

CreateFile == CreateFileOf(FileNames)

\* a new file p that cannot be read, and the Created event it reports
CreateUnreadableFileOf(names) ==
    /\ phase = "watching" /\ nevents < MaxEvents
    /\ \E p \in FreePaths(fs, names) :
         LET f == (p :> Unreadable(Text(MaxTextLen))) @@ fs
             ev == Event("created", FALSE, p, <<>>)
         IN fs' = f /\ Leaves(on_created(f, Stores, ev), ev)

\* the tree at p leaves the watched root, reported as one Deleted event
DeleteDirectory ==
    /\ phase = "watching" /\ nevents < MaxEvents
    /\ \E p \in DOMAIN fs \ {Root} :
         /\ fs[p].is_dir
         /\ LET f == Removed(fs, p)
                ev == Event("deleted", TRUE, p, <<>>)
            IN /\ fs' = f
               /\ Leaves(on_deleted(f, [Stores EXCEPT !.vdb = RemovedDb(vdb, p)], ev), ev)

\* unlink p, and the Deleted event it reports
DeleteFile ==
    /\ phase = "watching" /\ nevents < MaxEvents
    /\ \E p \in DOMAIN fs :
         /\ ~fs[p].is_dir
         /\ LET f == Removed(fs, p)
                ev == Event("deleted", FALSE, p, <<>>)
            IN fs' = f /\ Leaves(on_deleted(f, Stores, ev), ev)

\* rename(src, dest) of a directory, and the Moved event it reports
MoveDirectoryOf(names) ==
    /\ phase = "watching" /\ nevents < MaxEvents
    /\ \E src \in DOMAIN fs \ {Root} :
         /\ fs[src].is_dir
         /\ \E dest \in FreePaths(fs, names) :
              /\ ~IsUnder(dest, src)
              /\ LET f == Renamed(fs, src, dest)
                     ev == Event("moved", TRUE, src, dest)
                 IN /\ fs' = f
                    /\ Leaves(on_moved(f, [Stores EXCEPT !.vdb = RenamedDb(vdb, src, dest)],
                                       ev), ev)

MoveDirectory == MoveDirectoryOf(DirNames)

\* rename(src, dest) of a file, and the Moved event it reports
MoveFileOf(names) ==
    /\ phase = "watching" /\ nevents < MaxEvents
    /\ \E src \in DOMAIN fs :
         /\ ~fs[src].is_dir
         /\ \E dest \in FreePaths(fs, names) :
              LET f == Renamed(fs, src, dest)
                  ev == Event("moved", FALSE, src, dest)
              IN fs' = f /\ Leaves(on_moved(f, Stores, ev), ev)

MoveFile == MoveFileOf(FileNames)

Next ==
    \/ Walk
    \/ CreateDirectory
    \/ CreateFile
    \/ DeleteDirectory
    \/ DeleteFile
    \/ MoveDirectory
    \/ MoveFile

Spec == Init /\ [][Next]_vars

-----------------------------------------------------------------------------
(* The same engine over a flat tree whose entries carry the names that the *)
(* ignore filter and the content extractor tell apart.                     *)

\* the trees this walk may find: the root, with or without
\*   /a/.g, empty
\*   /a/p.pdf, a document that can or cannot be parsed
\*   /a/f, a text file that cannot be read
\*   /a/p.PNG and /a/.h
NamedTrees ==
    LET long == File(Text(MaxTextLen))
        g == JoinPath(Root, HiddenDir)
        pdf == JoinPath(Root, PdfName)
    IN {(Root :> Dir) @@ G @@ D @@ F @@ B :
           G \in {<<>>, (g :> Dir)},
           D \in {<<>>, (pdf :> long), (pdf :> Unreadable(Text(MaxTextLen)))},
           F \in {<<>>, (JoinPath(Root, <<"f">>) :> Unreadable(Text(MaxTextLen)))},
           B \in {<<>>, (JoinPath(Root, PngName) :> long)
                          @@ (JoinPath(Root, <<".","h">>) :> long)}}

InitNames ==
    /\ fs \in NamedTrees
    /\ file_info = {}
    /\ directory_structure = {}
    /\ seq_file_info = 0
    /\ seq_directory_structure = 0
    /\ vdb = <<>>
    /\ phase = "start"
    /\ event = NoEvent
    /\ outcome = "none"
    /\ nevents = 0
    /\ dbs = <<>>
    /\ call = NoCall
    /\ ret = NoRet
    /\ _model = NoModel

CreateNamedDirectory == CreateDirectoryOf(MoreDirNames)

CreateNamedFile == CreateFileOf(MoreFileNames)

CreateUnreadableFile == CreateUnreadableFileOf({<<"f">>, PdfName})

MoveNamedDirectory == MoveDirectoryOf(MoreDirNames)

MoveNamedFile == MoveFileOf(MoreFileNames)

NextNames ==
    \/ Walk
    \/ CreateNamedDirectory
    \/ CreateNamedFile
    \/ CreateUnreadableFile
    \/ DeleteDirectory
    \/ DeleteFile
    \/ MoveNamedDirectory
    \/ MoveNamedFile

SpecNames == InitNames /\ [][NextNames]_vars

-----------------------------------------------------------------------------
(* The metadata store on its own: calls of initialize_database and of the  *)
(* two insert functions, each naming the database file it works on.        *)

\* a database file name other than the one every caller of the engine passes
OtherDb == <<"t","e","s","t",".","d","b">>

DbFileNames == {FilesystemDb, OtherDb}

\* the paths inserted
RowPaths == {Root, JoinPath(Root, <<"f">>)}

\* the record of a call of a function of sqlite.py
DbCall(op, db_name, path) == [op |-> op, db_name |-> db_name, path |-> path]

\* no database file exists yet, or one that was made with the same two
\* tables under the other name
InitDB ==
    /\ dbs \in {<<>>, (OtherDb :> NewTables)}
    /\ call = NoCall
    /\ ret = NoRet
    /\ _model = NoModel
    /\ fs = (Root :> Dir)
    /\ file_info = {}
    /\ directory_structure = {}
    /\ seq_file_info = 0
    /\ seq_directory_structure = 0
    /\ vdb = <<>>
    /\ phase = "start"
    /\ event = NoEvent
    /\ outcome = "none"
    /\ nevents = 0

InitializeDatabase ==
    \E db_name \in DbFileNames :
        /\ dbs' = initialize_database(dbs, db_name)
        /\ call' = DbCall("initialize_database", db_name, <<>>)
        /\ ret' = NoRet
        /\ UNCHANGED <<fs, file_info, directory_structure, seq_file_info,
                       seq_directory_structure, vdb, phase, event, outcome, nevents,
                       _model>>

\* insert_file_info(file_path, is_dir, db_name) on a database that exists
InsertFileInfo ==
    \E db_name \in DOMAIN dbs, file_path \in RowPaths :
        /\ dbs[db_name].seq_file_info < MaxRows
        /\ LET ins == insert_file_info(dbs[db_name].file_info, dbs[db_name].seq_file_info,
                                       file_path, IF file_path = Root THEN 1 ELSE 0)
           IN /\ dbs' = [dbs EXCEPT ![db_name].file_info = ins.file_info,
                                    ![db_name].seq_file_info = ins.seq_file_info]
              /\ ret' = [raised |-> FALSE, none |-> FALSE, res |-> <<ins.id>>]
        /\ call' = DbCall("insert_file_info", db_name, file_path)
        /\ UNCHANGED <<fs, file_info, directory_structure, seq_file_info,
                       seq_directory_structure, vdb, phase, event, outcome, nevents,
                       _model>>

\* insert_directory_structure(dir_id, dir_path, parent_dir_path, db_name)
\* for a directory row of the database
InsertDirectoryStructure ==
    \E db_name \in DOMAIN dbs :
        /\ dbs[db_name].seq_directory_structure < MaxRows
        /\ \E r \in dbs[db_name].file_info :
             /\ r.is_dir = 1
             /\ LET edge == insert_directory_structure(
                                dbs[db_name].directory_structure,
                                dbs[db_name].seq_directory_structure,
                                r.id, r.file_path, Dirname(r.file_path))
                IN dbs' = [dbs EXCEPT
                             ![db_name].directory_structure = edge.directory_structure,
                             ![db_name].seq_directory_structure = edge.seq_directory_structure]
             /\ call' = DbCall("insert_directory_structure", db_name, r.file_path)
        /\ ret' = NoRet
        /\ UNCHANGED <<fs, file_info, directory_structure, seq_file_info,
                       seq_directory_structure, vdb, phase, event, outcome, nevents,
                       _model>>

NextDB ==
    \/ InitializeDatabase
    \/ InsertFileInfo
    \/ InsertDirectoryStructure

SpecDB == InitDB /\ [][NextDB]_vars

-----------------------------------------------------------------------------
(* The content extractor on its own: one text, one chunk size, one file    *)
(* that holds the text, and the two functions that split it.               *)

\* the texts: every string of x and y of at most MaxChunkText characters
ChunkTexts == UNION {[1..n -> {"x", "y"}] : n \in 0..MaxChunkText}

\* the file that holds the text: a plain name, or one with a binary extension
ChunkPaths == {JoinPath(Root, <<"f">>), JoinPath(Root, PngName)}

InitChunk ==
    /\ call \in [op : {"input"}, text : ChunkTexts,
                  chunk_size : 1..MaxChunkSize, path : ChunkPaths]
    /\ fs = (Root :> Dir) @@ (call.path :> File(call.text))
    /\ ret = NoRet
    /\ _model = NoModel
    /\ file_info = {}
    /\ directory_structure = {}
    /\ seq_file_info = 0
    /\ seq_directory_structure = 0
    /\ vdb = <<>>
    /\ phase = "start"
    /\ event = NoEvent
    /\ outcome = "none"
    /\ nevents = 0
    /\ dbs = <<>>

SplitTextIntoChunks ==
    /\ call.op = "input"
    /\ call' = [call EXCEPT !.op = "split_text_into_chunks"]
    /\ ret' = [raised |-> FALSE, none |-> FALSE,
               res |-> split_text_into_chunks(call.text, call.chunk_size)]
    /\ UNCHANGED <<fs, file_info, directory_structure, seq_file_info,
                   seq_directory_structure, vdb, phase, event, outcome, nevents, dbs,
                   _model>>

GetFileData ==
    /\ call.op = "input"
    /\ call' = [call EXCEPT !.op = "get_file_data"]
    /\ ret' = [raised |-> FALSE, none |-> FALSE,
               res |-> get_file_data(fs, call.path, call.chunk_size)]
    /\ UNCHANGED <<fs, file_info, directory_structure, seq_file_info,
                   seq_directory_structure, vdb, phase, event, outcome, nevents, dbs,
                   _model>>

NextChunk ==
    \/ SplitTextIntoChunks
    \/ GetFileData

SpecChunk == InitChunk /\ [][NextChunk]_vars

-----------------------------------------------------------------------------
(* The vector store on its own: calls of the functions of vector_db.py, in *)
(* any order, while the client and the embedding model may fail.           *)

\* the collection files the calls name: the root's, and that of /a/b
VSDbNames == {DbName(Root), DbName(JoinPath(Root, <<"b">>))}

\* the file ids the calls name
FileIds == {1, 2}

\* the batches of chunks a caller saves
Batches == {<<>>, <<Text(1), Text(2)>>}

\* the environments of a call: nothing fails, the client cannot be opened,
\* or it cannot be closed
ClientEnvs ==
    {Healthy, [Healthy EXCEPT !.open = "fails"], [Healthy EXCEPT !.close = "fails"]}

\* and those of a call that embeds: the model may also fail, alone or
\* before a close that fails
Envs ==
    ClientEnvs \cup {[Healthy EXCEPT !.embed = "none"],
                     [Healthy EXCEPT !.embed = "raises"],
                     [Healthy EXCEPT !.embed = "none", !.close = "fails"]}

\* the record of a call: the function, its arguments, its environment, and
\* what the collection it names held when the call was made
Call(op, db_name, id, queries, all_str, env) ==
    [op |-> op, db_name |-> db_name, id |-> id, queries |-> queries,
     all_str |-> all_str, env |-> env,
     existed |-> has_collection(vdb, db_name),
     before |-> IF has_collection(vdb, db_name) THEN vdb[db_name] ELSE <<>>]

\* what the caller sees of a call
SeenByCaller(r) == [raised |-> r.raised, none |-> r.none, res |-> r.res]

\* the state a call leaves
Returns(c, r) ==
    /\ fs' = r.fs
    /\ vdb' = r.vdb
    /\ call' = c
    /\ ret' = SeenByCaller(r)
    /\ nevents' = nevents + 1
    /\ UNCHANGED <<file_info, directory_structure, seq_file_info,
                   seq_directory_structure, phase, event, outcome, dbs,
                   _model>>

\* the state after the initial walk of a root that holds no file, and at
\* most the directory /a/b
InitVS ==
    /\ fs \in {[p \in P \cup {Root} |-> Dir] : P \in SUBSET {JoinPath(Root, <<"b">>)}}
    /\ LET st == start_command_c(fs, <<>>, Root).st
       IN /\ vdb = st.vdb
          /\ file_info = st.file_info
          /\ seq_file_info = st.seq_file_info
          /\ directory_structure = st.directory_structure
          /\ seq_directory_structure = st.seq_directory_structure
    /\ phase = "watching"
    /\ event = Event("walk", TRUE, Root, <<>>)
    /\ outcome = "ok"
    /\ nevents = 0
    /\ dbs = <<>>
    /\ call = NoCall
    /\ ret = NoRet
    /\ _model = NoModel

InitializeVectorDb ==
    \E db_name \in VSDbNames, env \in ClientEnvs :
        /\ nevents < MaxCalls
        /\ Returns(Call("initialize_vector_db", db_name, 0, <<>>, TRUE, env),
                initialize_vector_db_call(fs, vdb, db_name, env))

DeleteVectorDb ==
    \E db_name \in VSDbNames, env \in ClientEnvs :
        /\ nevents < MaxCalls
        /\ Returns(Call("delete_vector_db", db_name, 0, <<>>, TRUE, env),
                delete_vector_db_call(fs, vdb, db_name, env))

Save ==
    \E db_name \in VSDbNames, file_id \in FileIds, queries \in Batches,
       all_str \in BOOLEAN, env \in Envs :
        /\ nevents < MaxCalls
        /\ all_str \/ env = Healthy
        /\ Returns(Call("save", db_name, file_id, queries, all_str, env),
                save_call(fs, vdb, db_name, file_id, queries, all_str, env))

\* file_data is what find_by_id gave for some collection and id
InsertFileEmbedding ==
    \E db_name \in VSDbNames, src \in DOMAIN vdb, id \in FileIds, env \in ClientEnvs :
        /\ nevents < MaxCalls
        /\ WithId(vdb[src], id) # <<>>
        /\ Returns(Call("insert_file_embedding", db_name, id, <<>>, TRUE, env),
                   insert_file_embedding_call(fs, vdb, WithId(vdb[src], id), db_name, env))

FindById ==
    \E db_name \in VSDbNames, search_id \in FileIds, env \in ClientEnvs :
        /\ nevents < MaxCalls
        /\ Returns(Call("find_by_id", db_name, search_id, <<>>, TRUE, env),
                find_by_id_call(fs, vdb, search_id, db_name, env))

RemoveById ==
    \E db_name \in VSDbNames, remove_id \in FileIds, env \in ClientEnvs :
        /\ nevents < MaxCalls
        /\ Returns(Call("remove_by_id", db_name, remove_id, <<>>, TRUE, env),
                remove_by_id_call(fs, vdb, remove_id, db_name, env))

\* the lists of query texts a caller searches for
QueryLists == {<<Text(1)>>, <<Text(1), Text(2)>>}

\* the environments of a search: those of the client, and a model that
\* gives no vectors
SearchEnvs == ClientEnvs \cup {[Healthy EXCEPT !.embed = "none"]}

Search ==
    \E db_name \in VSDbNames, query_list \in QueryLists, env \in SearchEnvs :
        /\ nevents < MaxCalls
        /\ Returns(Call("search", db_name, 0, query_list, TRUE, env),
                   search_call(fs, vdb, file_info, db_name, query_list, TRUE, env))

NextVS ==
    \/ InitializeVectorDb
    \/ DeleteVectorDb
    \/ Save
    \/ InsertFileEmbedding
    \/ FindById
    \/ RemoveById
    \/ Search

SpecVS == InitVS /\ [][NextVS]_vars

-----------------------------------------------------------------------------
(* The embedding model on its own: calls of initialize_model and of        *)
(* embedding, in any order, while the constructor of the model and its     *)
(* encode may fail.                                                        *)

\* the record of a call: the function, its batch, what the constructor and
\* encode do during the call, the value of _model when the call was made,
\* and whether the call reached the constructor and got a model from it
ModelCall(op, queries, all_str, constructs, encodes, r) ==
    [op |-> op, queries |-> queries, all_str |-> all_str,
     constructs |-> constructs, encodes |-> encodes,
     before |-> _model, attempted |-> r.attempted, constructed |-> r.constructed]

InitModel ==
    /\ fs = (Root :> Dir)
    /\ file_info = {}
    /\ directory_structure = {}
    /\ seq_file_info = 0
    /\ seq_directory_structure = 0
    /\ vdb = <<>>
    /\ phase = "start"
    /\ event = NoEvent
    /\ outcome = "none"
    /\ nevents = 0
    /\ dbs = <<>>
    /\ call = NoCall
    /\ ret = NoRet
    /\ _model = NoModel

InitializeModel ==
    \E constructs \in BOOLEAN :
        LET r == initialize_model(_model, constructs)
        IN /\ nevents < MaxCalls
           /\ _model' = r.model
           /\ call' = ModelCall("initialize_model", <<>>, TRUE, constructs, TRUE, r)
           /\ ret' = [raised |-> r.raised, none |-> TRUE, res |-> <<>>]
           /\ nevents' = nevents + 1
           /\ UNCHANGED <<fs, file_info, directory_structure, seq_file_info,
                          seq_directory_structure, vdb, phase, event, outcome, dbs>>

Embedding ==
    \E queries \in Batches \cup QueryLists, all_str \in BOOLEAN,
       constructs \in BOOLEAN, encodes \in BOOLEAN :
        LET r == embedding_model(_model, queries, all_str, constructs, encodes)
        IN /\ nevents < MaxCalls
           /\ _model' = r.model
           /\ call' = ModelCall("embedding", queries, all_str, constructs, encodes, r)
           /\ ret' = [raised |-> r.raised, none |-> r.none, res |-> r.vectors]
           /\ nevents' = nevents + 1
           /\ UNCHANGED <<fs, file_info, directory_structure, seq_file_info,
                          seq_directory_structure, vdb, phase, event, outcome, dbs>>

NextModel ==
    \/ InitializeModel
    \/ Embedding

SpecModel == InitModel /\ [][NextModel]_vars

-----------------------------------------------------------------------------
(* The two initial walks, each over the same trees of plain-text files and *)
(* of files with a binary extension.                                       *)

\* the trees both walks may find: the parent-closed parts of BaseTree, with
\* or without the image /a/p.PNG and the text file /a/b/f
WalkTrees ==
    LET long == File(Text(MaxTextLen))
        b == JoinPath(Root, <<"b">>)
    IN {w \in {t @@ B @@ F :
                  t \in InitialTrees,
                  B \in {<<>>, (JoinPath(Root, PngName) :> long)},
                  F \in {<<>>, (JoinPath(b, <<"f">>) :> long)}} :
           \A p \in DOMAIN w : p = Root \/ Dirname(p) \in DOMAIN w}

InitWalks ==
    /\ fs \in WalkTrees
    /\ file_info = {}
    /\ directory_structure = {}
    /\ seq_file_info = 0
    /\ seq_directory_structure = 0
    /\ vdb = <<>>
    /\ phase = "start"
    /\ event = NoEvent
    /\ outcome = "none"
    /\ nevents = 0
    /\ dbs = <<>>
    /\ call = NoCall
    /\ ret = NoRet
    /\ _model = NoModel

\* the stores a walk leaves, with the function that made it
WalkLeaves(op, st, raised) ==
    /\ vdb' = st.vdb
    /\ file_info' = st.file_info
    /\ seq_file_info' = st.seq_file_info
    /\ directory_structure' = st.directory_structure
    /\ seq_directory_structure' = st.seq_directory_structure
    /\ phase' = "walked"
    /\ event' = Event("walk", TRUE, Root, <<>>)
    /\ outcome' = IF raised THEN "raised" ELSE "ok"
    /\ call' = [op |-> op]
    /\ UNCHANGED <<fs, nevents, dbs, ret, _model>>

\* observer.start_command_c(Root)
ObserverWalk ==
    /\ phase = "start"
    /\ LET w == start_command_c(fs, vdb, Root)
       IN WalkLeaves("observer.start_command_c", w.st, w.raised)

\* shell.start_command_c(Root)
ShellWalk ==
    /\ phase = "start"
    /\ WalkLeaves("shell.start_command_c", shell_start_command_c(fs, vdb, Root), FALSE)

NextWalks ==
    \/ ObserverWalk
    \/ ShellWalk

SpecWalks == InitWalks /\ [][NextWalks]_vars

-----------------------------------------------------------------------------
(* Properties.                                                             *)

\* the last step delivered an event of this kind that the handler did not drop
Handled(ev, how, kind, is_directory) ==
    ev.kind = kind /\ ev.is_directory = is_directory /\ how # "ignored"

\* the row of table fi with the given id
RowOf(fi, id) == CHOOSE r \in fi : r.id = id

\* the entries of the collection db_name that carry the id (none when the
\* collection does not exist)
EntriesOf(v, db_name, id) ==
    IF has_collection(v, db_name) THEN WithId(v[db_name], id) ELSE <<>>

\* C1 (P2, prefix cascade): a Moved-directory event src -> dest rewrites the
\* path of every FileRecord at or below src to the dest-prefixed path with
\* the suffix unchanged, and leaves every other FileRecord's path (such as
\* /a/bx and /a/bx/f for src = /a/b) untouched.
C1_PrefixCascade ==
    [][Handled(event', outcome', "moved", TRUE) =>
         /\ {r.id : r \in file_info'} = {r.id : r \in file_info}
         /\ \A r \in file_info :
              RowOf(file_info', r.id).file_path =
                  IF IsUnder(r.file_path, event'.src_path)
                  THEN event'.dest_path
                       \o SubSeq(r.file_path, Len(event'.src_path) + 1, Len(r.file_path))
                  ELSE r.file_path]_vars

\* C2 (P3, delete cascade completeness): after a Deleted-directory event for
\* D no FileRecord and no DirectoryEdge with a path at or below D remains,
\* the collection of D does not exist, and get_id_by_path finds no row for D
\* or for any path that was at or below D.
C2_DeleteCascade ==
    [][Handled(event', outcome', "deleted", TRUE) =>
         LET D == event'.src_path
         IN /\ \A r \in file_info' : ~IsUnder(r.file_path, D)
            /\ \A e \in directory_structure' : ~IsUnder(e.dir_path, D)
            /\ ~has_collection(vdb', DbName(D))
            /\ \A p \in DOMAIN fs \cup {r.file_path : r \in file_info} :
                 IsUnder(p, D) => get_id_by_path(file_info', p).raised]_vars

\* C2 witness: a Deleted-directory event has been handled and has removed
\* the rows of a directory and of at least one entry below it, while rows of
\* other entries remain.
C2_Witness ==
    /\ Handled(event, outcome, "deleted", TRUE)
    /\ Cardinality(file_info) + 2 <= seq_file_info
    /\ Cardinality(file_info) >= 2

\* C3 (P1, identity stability): an event that concerns other paths (not F,
\* not an ancestor of F) leaves get_id_by_path(F) as it was, for every
\* recorded file F.
C3_IdentityStability ==
    [][event'.kind \in {"created", "deleted", "moved"} =>
         \A F \in DOMAIN fs :
            (/\ ~fs[F].is_dir
             /\ ~get_id_by_path(file_info, F).raised
             /\ ~IsUnder(F, event'.src_path)
             /\ F # event'.dest_path)
            => get_id_by_path(file_info', F) = get_id_by_path(file_info, F)]_vars

\* C4 (path uniqueness): file_info never holds two FileRecords with the
\* same path.
C4_PathUnique ==
    \A r1, r2 \in file_info : r1.file_path = r2.file_path => r1 = r2

\* C5 (file removal): after a Deleted-file event for a recorded file F no
\* FileRecord with path F remains and the collection of F's directory holds
\* no entry with F's id.
C5_FileRemoval ==
    [][(/\ Handled(event', outcome', "deleted", FALSE)
        /\ ~get_id_by_path(file_info, event'.src_path).raised) =>
         LET F == event'.src_path
             id == get_id_by_path(file_info, F).id
         IN /\ \A r \in file_info' : r.file_path # F
            /\ EntriesOf(vdb', DbName(Dirname(F)), id) = <<>>]_vars

\* C6 (P6, move preserves vectors): after a Moved-file event that moves F,
\* which had N entries in the collection of directory A, to another
\* directory B, the collection of A holds no entry of F and some collection
\* holds exactly the N entries F had, vectors and texts as they were.
C6_MovePreservesVectors ==
    [][(/\ Handled(event', outcome', "moved", FALSE)
        /\ ~get_id_by_path(file_info, event'.src_path).raised
        /\ Dirname(event'.src_path) # Dirname(event'.dest_path)) =>
         LET id == get_id_by_path(file_info, event'.src_path).id
             A == DbName(Dirname(event'.src_path))
             had == EntriesOf(vdb, A, id)
         IN /\ EntriesOf(vdb', A, id) = <<>>
            /\ had # <<>> => \E c \in DOMAIN vdb' : WithId(vdb'[c], id) = had]_vars

\* C7 (file move updates metadata): after a Moved-file event src -> dest for
\* a recorded file, get_id_by_path(dest) returns the id the file had,
\* get_id_by_path(src) finds nothing, and no other FileRecord has changed.
C7_MoveUpdatesMetadata ==
    [][(/\ Handled(event', outcome', "moved", FALSE)
        /\ ~get_id_by_path(file_info, event'.src_path).raised) =>
         LET old == get_id_by_path(file_info, event'.src_path)
         IN /\ get_id_by_path(file_info', event'.dest_path) = old
            /\ get_id_by_path(file_info', event'.src_path).raised
            /\ {r \in file_info' : r.id # old.id} = {r \in file_info : r.id # old.id}]_vars

\* C8 (directory/edge invariant): once the walk is done, every directory
\* FileRecord has exactly one DirectoryEdge with its id, that edge's dir_path
\* is the record's path, every DirectoryEdge belongs to a directory
\* FileRecord, and get_directory_structure lists exactly the paths of the
\* directory FileRecords.
C8_DirectoryEdges ==
    phase # "start" =>
      LET dirs == {r \in file_info : r.is_dir = 1}
          listed == get_directory_structure(directory_structure)
      IN /\ \A r \in dirs :
              /\ Cardinality({e \in directory_structure : e.id = r.id}) = 1
              /\ \A e \in directory_structure : e.id = r.id => e.dir_path = r.file_path
         /\ \A e \in directory_structure : \E r \in dirs : r.id = e.id
         /\ Len(listed) = Cardinality(dirs)
         /\ {listed[i] : i \in 1..Len(listed)} = {r.file_path : r \in dirs}

\* C9 (cross-store referential integrity): every entry of a collection file
\* that lies in directory D carries the id of a FileRecord with is_dir = 0
\* whose path lies directly in D.
C9_ReferentialIntegrity ==
    \A db_name \in DOMAIN vdb :
      \A i \in 1..Len(vdb[db_name]) :
        \E r \in file_info :
          /\ r.id = vdb[db_name][i].id
          /\ r.is_dir = 0
          /\ Dirname(r.file_path) = Dirname(db_name)

\* C10 (handlers never raise on a failed lookup): a Deleted-file or
\* Moved-file event for a path with no FileRecord, or whose directory has no
\* collection, ends without an exception leaving the handler and with both
\* stores as they were.
C10_NoRaiseOnFailedLookup ==
    [][(/\ event'.kind \in {"deleted", "moved"}
        /\ ~event'.is_directory
        /\ \/ get_id_by_path(file_info, event'.src_path).raised
           \/ ~has_collection(vdb, DbName(Dirname(event'.src_path)))) =>
         /\ outcome' # "raised"
         /\ UNCHANGED <<file_info, directory_structure, vdb>>]_vars

\* C15: P5, binary opacity.  For a file whose extension is a recognized
\* binary extension, in any letter case, get_file_data gives the record
\* [path, filename] and no chunk, and neither the initial walk nor a
\* Created-file event stores an entry for the file in any collection.
C15_BinaryOpacity ==
    \A r \in file_info :
        (r.is_dir = 0 /\ _is_binary_file(r.file_path)) =>
            /\ r.file_path \in DOMAIN fs =>
                  get_file_data(fs, r.file_path, DEFAULT_CHUNK_SIZE)
                      = <<r.file_path, Basename(r.file_path)>>
            /\ \A d \in DOMAIN vdb : WithId(vdb[d], r.id) = <<>>

\* the name of the entry starts with a dot
Hidden(p) == Basename(p) # <<>> /\ Head(Basename(p)) = "."

\* the path contains one of the patterns of the database and journal files
LockDbPattern(p) ==
    \E pattern \in IGNORED_PATTERNS :
        \E i \in 1..(Len(p) - Len(pattern) + 1) :
            SubSeq(p, i, i + Len(pattern) - 1) = pattern

\* the event fails the ignore filter
Filtered(ev) ==
    \/ Hidden(ev.src_path) \/ LockDbPattern(ev.src_path)
    \/ ev.kind = "moved" /\ (Hidden(ev.dest_path) \/ LockDbPattern(ev.dest_path))

\* C16: ignore filter.  A created, deleted or moved event whose path (for a
\* move: source or destination) is hidden or contains a database pattern
\* is dropped: the handler calls neither store, the metadata tables are
\* unchanged, and the collections are as the filesystem change itself
\* left them (collection files go with the directory that holds them).
C16_IgnoreFilter ==
    [][(event'.kind \in {"created", "deleted", "moved"} /\ Filtered(event')) =>
         /\ outcome' = "ignored"
         /\ UNCHANGED <<file_info, directory_structure,
                        seq_file_info, seq_directory_structure>>
         /\ vdb' = IF event'.is_directory /\ event'.kind = "deleted"
                   THEN RemovedDb(vdb, event'.src_path)
                   ELSE IF event'.is_directory /\ event'.kind = "moved"
                   THEN RenamedDb(vdb, event'.src_path, event'.dest_path)
                   ELSE vdb]_vars

\* an indexed file with vector entries was moved to a name that contains a
\* database pattern and is not hidden, and the event was dropped
C16_Witness ==
    /\ event.kind = "moved" /\ ~event.is_directory /\ outcome = "ignored"
    /\ ~Hidden(event.src_path) /\ ~LockDbPattern(event.src_path)
    /\ ~Hidden(event.dest_path) /\ LockDbPattern(event.dest_path)
    /\ \E r \in file_info :
         /\ r.file_path = event.src_path
         /\ \E d \in DOMAIN vdb : WithId(vdb[d], r.id) # <<>>

\* the functions of the vector store that were called in SpecVS
VSOps ==
    {"initialize_vector_db", "delete_vector_db", "save", "insert_file_embedding",
     "find_by_id", "remove_by_id", "search"}

\* C11: P7, lock cleanup.  After a call of a vector store function has
\* returned or raised, on whatever exit path, the advisory lock file of
\* the collection file it was called on does not exist.
C11_LockCleanup ==
    call.op \in VSOps => lock_file(call.db_name) \notin DOMAIN fs

\* the embedding inside this call of save failed: the model gave no
\* vectors, or it raised (it could not be constructed, or the batch holds
\* an element that is not a string)
EmbeddingFailed(c) == c.op = "save" /\ (c.env.embed # "ok" \/ ~c.all_str)

\* C12: no partial insert.  When the embedding fails inside save, every
\* collection holds exactly the entries it held before the call.
C12_NoPartialInsert ==
    [][EmbeddingFailed(call') => vdb' = vdb]_vars

\* save reached the embedding of a batch of two chunks for a collection that
\* held entries already, and the model gave no vectors
C12_Witness ==
    /\ EmbeddingFailed(call) /\ call.env = [Healthy EXCEPT !.embed = "none"]
    /\ call.existed /\ Len(call.before) >= 2 /\ Len(call.queries) = 2
    /\ ~ret.raised

\* C13: failure is surfaced.  When save inserted nothing of a batch that
\* is not empty because the embedding failed or the batch was invalid, what
\* the caller sees differs
\* from what it sees after the same call with a healthy service and a
\* valid batch.
C13_FailureSurfaced ==
    [][(EmbeddingFailed(call') /\ call'.queries # <<>>
          /\ call'.existed /\ call'.env.open = "ok") =>
         ret' # SeenByCaller(save_call(fs, vdb, call'.db_name, call'.id,
                                       call'.queries, TRUE, Healthy))]_vars

\* C18: initializeCollection is idempotent.  After initialize_vector_db
\* returns without raising, the collection exists and holds no entry,
\* whatever it held before, and a second call that returns leaves the
\* collections and the filesystem as the first call left them.
C18_InitializeIdempotent ==
    [][(call'.op = "initialize_vector_db" /\ ~ret'.raised) =>
         /\ has_collection(vdb', call'.db_name)
         /\ vdb'[call'.db_name] = <<>>
         /\ \A d \in DOMAIN vdb' \ {call'.db_name} : d \in DOMAIN vdb /\ vdb'[d] = vdb[d]
         /\ \A env \in ClientEnvs :
              LET again == initialize_vector_db_call(fs', vdb', call'.db_name, env)
              IN ~again.raised => again.vdb = vdb' /\ again.fs = fs']_vars

\* a collection that held entries was initialized again
C18_Witness ==
    /\ call.op = "initialize_vector_db" /\ ~ret.raised
    /\ call.existed /\ Len(call.before) >= 2

\* C19: dropCollection.  After delete_vector_db returns, the collection
\* does not exist; when it did not exist before, the call changes nothing
\* and returns without raising.
C19_DropCollection ==
    [][call'.op = "delete_vector_db" =>
         /\ ~ret'.raised => ~has_collection(vdb', call'.db_name)
         /\ ~has_collection(vdb, call'.db_name) => ~ret'.raised /\ vdb' = vdb]_vars

\* C20: removeByFileId.  After remove_by_id on a collection that exists,
\* with a client that opened, the collection holds no entry with the id,
\* the entries with another id are those it held before, in their order,
\* and every other collection is unchanged.
C20_RemoveByFileId ==
    [][(call'.op = "remove_by_id" /\ call'.existed /\ call'.env.open = "ok") =>
         /\ has_collection(vdb', call'.db_name)
         /\ \A i \in 1..Len(vdb'[call'.db_name]) : vdb'[call'.db_name][i].id # call'.id
         /\ vdb'[call'.db_name]
              = SelectSeq(vdb[call'.db_name], LAMBDA e : e.id # call'.id)
         /\ \A d \in DOMAIN vdb \ {call'.db_name} : d \in DOMAIN vdb' /\ vdb'[d] = vdb[d]
         /\ DOMAIN vdb' = DOMAIN vdb]_vars

\* two chunk entries of the id were removed from a collection that also
\* held entries of another id
C20_Witness ==
    /\ call.op = "remove_by_id" /\ call.existed /\ ~ret.raised
    /\ Len(WithId(call.before, call.id)) >= 2
    /\ Len(WithoutId(call.before, call.id)) >= 1
    /\ Len(vdb[call.db_name]) >= 1

\* the chunks in order, joined
RECURSIVE Concat(_)
Concat(chunks) ==
    IF chunks = <<>> THEN <<>> ELSE Head(chunks) \o Concat(Tail(chunks))

\* the chunks the last call produced: all that split_text_into_chunks
\* returned, and what follows the two header elements of get_file_data
ChunksReturned ==
    IF call.op = "get_file_data" THEN SubSeq(ret.res, 3, Len(ret.res)) ELSE ret.res

\* C14: P4, chunk round-trip.  For a text of length L and a chunk size
\* C >= 1, split_text_into_chunks, and get_file_data for a file that is
\* not binary, yield ceil(L/C) chunks (the n with (n-1)*C < L <= n*C);
\* every chunk but the last has length C, the last has a length from 1 to
\* C, and the chunks joined in order are the text.
C14_ChunkRoundTrip ==
    (\/ call.op = "split_text_into_chunks"
     \/ call.op = "get_file_data" /\ ~_is_binary_file(call.path)) =>
        LET chunks == ChunksReturned
            n == Len(chunks)
            L == Len(call.text)
            C == call.chunk_size
        IN /\ (n - 1) * C < L /\ L <= n * C
           /\ \A k \in 1..(n - 1) : Len(chunks[k]) = C
           /\ n > 0 => Len(chunks[n]) \in 1..C
           /\ Concat(chunks) = call.text

\* a text of both characters whose length is not a multiple of the chunk
\* size was read from a file and split into more than one chunk
C14_Witness ==
    /\ call.op = "get_file_data" /\ ~_is_binary_file(call.path)
    /\ Len(call.text) = MaxChunkText /\ call.chunk_size = MaxChunkSize
    /\ Len(call.text) % call.chunk_size # 0
    /\ \E i, j \in 1..Len(call.text) : call.text[i] # call.text[j]
    /\ Len(ChunksReturned) >= 2

\* C17: initialize().  After initialize_database(db_name) returns, the
\* database file db_name exists and its tables file_info and
\* directory_structure are empty, whatever rows it held before.
C17_InitializeEmpties ==
    [][call'.op = "initialize_database" =>
         /\ call'.db_name \in DOMAIN dbs'
         /\ dbs'[call'.db_name].file_info = {}
         /\ dbs'[call'.db_name].directory_structure = {}]_vars

\* C21: lookupByFileId.  find_by_id never changes a collection.  With a
\* client that opens and closes, it does not raise; when the collection
\* holds entries with the id it returns all of them and nothing else, in
\* their order; when the collection does not exist, or holds no entry with
\* the id, it returns None.
C21_LookupByFileId ==
    [][call'.op = "find_by_id" =>
         /\ vdb' = vdb
         /\ (ClientOpens(fs, call'.db_name) /\ call'.env.open = "ok"
               /\ call'.env.close = "ok") =>
              LET hits == SelectSeq(call'.before, LAMBDA e : e.id = call'.id)
              IN /\ ~ret'.raised
                 /\ hits # <<>> => ~ret'.none /\ ret'.res = hits
                 /\ hits = <<>> => ret'.none /\ ret'.res = <<>>]_vars

\* two chunk entries of the id were found in a collection that also holds
\* an entry of another id
C21_Witness ==
    /\ call.op = "find_by_id" /\ call.existed /\ ~ret.raised /\ ~ret.none
    /\ Len(ret.res) >= 2
    /\ Len(call.before) > Len(ret.res)
    /\ \A i \in 1..Len(ret.res) : ret.res[i].id = call.id

\* C22: save inserts one entry per chunk.  When the client opens, the
\* collection exists and the embedding succeeds, save appends one entry
\* for each chunk of the batch, the i-th with the file id, the i-th chunk
\* as its word and the vector of that chunk; the entries the collection
\* held stay as they were, and so does every other collection.
C22_OneEntryPerChunk ==
    [][(call'.op = "save" /\ call'.existed /\ call'.env.open = "ok"
          /\ call'.env.embed = "ok" /\ call'.all_str) =>
         LET db == call'.db_name
             n == Len(vdb[db])
         IN /\ has_collection(vdb', db)
            /\ Len(vdb'[db]) = n + Len(call'.queries)
            /\ \A i \in 1..n : vdb'[db][i] = vdb[db][i]
            /\ \A i \in 1..Len(call'.queries) :
                 vdb'[db][n + i] = [id |-> call'.id,
                                    vector |-> Embed(call'.queries[i]),
                                    word |-> call'.queries[i]]
            /\ \A d \in DOMAIN vdb \ {db} : d \in DOMAIN vdb' /\ vdb'[d] = vdb[d]
            /\ DOMAIN vdb' = DOMAIN vdb]_vars

\* a batch of two chunks was saved, with its vectors, into a collection
\* that held the entries of another file
C22_Witness ==
    /\ call.op = "save" /\ call.existed /\ call.env = Healthy /\ call.all_str
    /\ Len(call.queries) = 2 /\ Len(call.before) >= 2
    /\ \A i \in 1..Len(call.before) : call.before[i].id # call.id
    /\ Len(vdb[call.db_name]) = Len(call.before) + 2

\* the lists of a list of lists, one after the other
RECURSIVE Flatten(_)
Flatten(lists) ==
    IF lists = <<>> THEN <<>> ELSE Head(lists) \o Flatten(Tail(lists))

\* C23: similaritySearch.  For k query texts, a search that returns gives
\* the two nearest matches of every one of the k queries, one query after
\* the other: at most 2 * k elements, and exactly 2 * k when the collection
\* holds at least two entries.
C23_SimilaritySearch ==
    [][(call'.op = "search" /\ call'.existed /\ call'.env = Healthy /\ ~ret'.raised) =>
         LET k == Len(call'.queries)
             hits == client_search(call'.before, embedding(call'.queries), 2)
         IN /\ Len(ret'.res) <= 2 * k
            /\ Len(call'.before) >= 2 => Len(ret'.res) = 2 * k
            /\ ret'.res = Flatten([q \in 1..k |->
                              [i \in 1..Len(hits[q]) |->
                                  get_path_by_id(file_info, hits[q][i].id).path]])]_vars

\* the file at p is one the walk indexes: not hidden, not a database file
Walked(p) ==
    ~StartsWith(Basename(p), <<".">>) /\ ~EndsWith(Basename(p), <<".","d","b">>)

\* C24: the walk and the watcher survive local errors.  No exception leaves
\* the walk or an event handler; and after the walk every file that is not
\* hidden and not a database file has its record, whatever happened to the
\* files before it.
C24_LocalErrorsContained ==
    /\ outcome # "raised"
    /\ event.kind = "walk" =>
         \A p \in DOMAIN fs :
             (~fs[p].is_dir /\ Walked(p)) => \E r \in file_info : r.file_path = p

\* the file at p is a plain-text file: not a document for read_pdf or
\* read_word, and without a binary extension
PlainText(p) ==
    /\ ~EndsWith(p, <<".","p","d","f">>) /\ ~EndsWith(p, <<".","d","o","c","x">>)
    /\ ~_is_binary_file(p)

\* the plain-text files of f that cannot be read, and its documents that
\* cannot be parsed
UnreadableTexts(f) ==
    {p \in DOMAIN f : ~f[p].is_dir /\ ~f[p].readable /\ PlainText(p)}

UnreadableDocuments(f) ==
    {p \in DOMAIN f : ~f[p].is_dir /\ ~f[p].readable /\ ~PlainText(p)}

\* C25: an I/O failure keeps the record.  When the content of a created
\* plain-text file cannot be read, the handler inserts its record, stores
\* no entry in any collection, and returns without raising.  When the walk
\* meets such files, it inserts one record for each of them and stores no
\* entry with the id of any; unless a document stops it, it ends without
\* raising.
C25_UnreadableKeepsRecord ==
    [][/\ (Handled(event', outcome', "created", FALSE)
             /\ event'.src_path \in UnreadableTexts(fs')) =>
            /\ outcome' = "ok"
            /\ seq_file_info' = seq_file_info + 1
            /\ file_info' = file_info \cup
                   {[id |-> seq_file_info', file_path |-> event'.src_path, is_dir |-> 0]}
            /\ vdb' = vdb
       /\ event'.kind = "walk" =>
            /\ \A p \in UnreadableTexts(fs) :
                  /\ Cardinality({r \in file_info' : r.file_path = p}) = 1
                  /\ \A r \in file_info' : r.file_path = p =>
                        /\ r.is_dir = 0
                        /\ \A d \in DOMAIN vdb' : WithId(vdb'[d], r.id) = <<>>
            /\ UnreadableDocuments(fs) = {} => outcome' = "ok"]_vars

\* the walk has indexed a text file that cannot be read, it went on to a
\* document with text, and then a file that cannot be read was created
C25_Witness ==
    /\ event.kind = "created" /\ outcome = "ok"
    /\ event.src_path \in UnreadableTexts(fs)
    /\ \E r \in file_info : r.file_path = event.src_path /\ r.is_dir = 0
    /\ \E p \in UnreadableTexts(fs) \ {event.src_path} :
          \E r \in file_info : r.file_path = p
    /\ \E r \in file_info :
          /\ EndsWith(r.file_path, <<".","p","d","f">>)
          /\ \E d \in DOMAIN vdb : WithId(vdb[d], r.id) # <<>>

\* C26: lazy, idempotent model initialization.  Whatever the order of the
\* calls of initialize_model and embedding: a call made when a model is
\* loaded does not reach the constructor and leaves the model in place; a
\* call made when none is loaded, embedding included, reaches the
\* constructor before anything else; when the constructor fails the call
\* raises and no model is loaded, so that the next call reaches the
\* constructor again; and embedding gives vectors only with a model loaded.
C26_LazyModelInit ==
    [][call'.op \in {"initialize_model", "embedding"} =>
         /\ _model # NoModel =>
              ~call'.attempted /\ ~call'.constructed /\ _model' = _model
         /\ _model = NoModel =>
              /\ call'.attempted
              /\ call'.constructed = call'.constructs
              /\ call'.constructed => _model' # NoModel
              /\ ~call'.constructed => _model' = NoModel /\ ret'.raised
         /\ (call'.op = "embedding" /\ ~ret'.raised /\ ~ret'.none) =>
              _model' # NoModel /\ ret'.res = embedding(call'.queries)]_vars

\* after a call whose constructor failed, embedding found no model, had
\* one constructed and gave the vectors of its batch
C26_Witness ==
    /\ call.op = "embedding" /\ nevents >= 2
    /\ call.before = NoModel /\ call.constructed /\ _model # NoModel
    /\ ~ret.raised /\ Len(ret.res) = 2

\* what the walk is to index of the tree f: the root, every directory, and
\* every file that is not hidden and not a database file
Indexed(f) == {p \in DOMAIN f : f[p].is_dir \/ Walked(p)}

\* the entries a file with these chunks and this id contributes
ChunkEntries(id, chunks) ==
    [i \in 1..Len(chunks) |-> [id |-> id, vector |-> Embed(chunks[i]), word |-> chunks[i]]]

\* C27: the result of the initial walk.  After a walk of the root that ends
\* without error, file_info holds exactly one record for the root, for
\* every directory below it and for every file that is neither hidden nor
\* a database file, and no other; directory_structure holds exactly one
\* edge for every directory, with its path and the path of its parent (the
\* root's may be empty); a text file has one entry per chunk, keyed by its
\* id, in the collection of the directory that holds it, and a file with a
\* binary extension has no entry.
C27_WalkResult ==
    [][(event'.kind = "walk" /\ outcome' = "ok") =>
         /\ {r.file_path : r \in file_info'} = Indexed(fs)
         /\ Cardinality(file_info') = Cardinality(Indexed(fs))
         /\ \A r \in file_info' : (r.is_dir = 1) = fs[r.file_path].is_dir
         /\ {e.dir_path : e \in directory_structure'} = {p \in DOMAIN fs : fs[p].is_dir}
         /\ Cardinality(directory_structure')
              = Cardinality({p \in DOMAIN fs : fs[p].is_dir})
         /\ \A e \in directory_structure' :
              /\ \E r \in file_info' : r.id = e.id /\ r.file_path = e.dir_path
              /\ \/ e.parent_dir_path = Dirname(e.dir_path)
                 \/ e.dir_path = Root /\ e.parent_dir_path = <<>>
         /\ \A r \in file_info' :
              r.is_dir = 0 =>
                LET p == r.file_path
                    chunks == IF _is_binary_file(p) \/ ~fs[p].readable THEN <<>>
                              ELSE split_text_into_chunks(fs[p].content, DEFAULT_CHUNK_SIZE)
                IN /\ EntriesOf(vdb', DbName(Dirname(p)), r.id) = ChunkEntries(r.id, chunks)
                   /\ \A d \in DOMAIN vdb' \ {DbName(Dirname(p))} :
                        WithId(vdb'[d], r.id) = <<>>]_vars

\* C28: the Created-directory handler.  A Created-directory event for a
\* path P that is not ignored leaves the handler without raising, with the
\* collection of P itself (P/<basename(P)>.db) existing and empty, one new
\* record (P, is_dir = 1), and one new edge: the id of that record, dir_path
\* P and the parent of P as parent_dir_path; every other collection is as
\* it was.
C28_CreatedDirectory ==
    [][Handled(event', outcome', "created", TRUE) =>
         LET P == event'.src_path
         IN /\ outcome' = "ok"
            /\ has_collection(vdb', DbName(P)) /\ vdb'[DbName(P)] = <<>>
            /\ \A d \in DOMAIN vdb : d \in DOMAIN vdb' /\ vdb'[d] = vdb[d]
            /\ seq_file_info' = seq_file_info + 1
            /\ file_info' = file_info \cup
                   {[id |-> seq_file_info', file_path |-> P, is_dir |-> 1]}
            /\ \E e \in directory_structure' :
                  /\ directory_structure' = directory_structure \cup {e}
                  /\ e \notin directory_structure
                  /\ e.id = seq_file_info'
                  /\ e.dir_path = P
                  /\ e.parent_dir_path = Dirname(P)]_vars

\* C29: a Created-file event keys the chunks by the new record's id.  The
\* handler inserts one record for the created path, and every entry it
\* adds to a collection carries the id given to that record, whatever the
\* tables held before, an older record with the same path included.
C29_CreatedFileId ==
    [][Handled(event', outcome', "created", FALSE) =>
         /\ seq_file_info' = seq_file_info + 1
         /\ \E r \in file_info' \ file_info :
               r.id = seq_file_info' /\ r.file_path = event'.src_path
         /\ \A d \in DOMAIN vdb' :
               LET n == IF has_collection(vdb, d) THEN Len(vdb[d]) ELSE 0
               IN \A i \in (n + 1)..Len(vdb'[d]) : vdb'[d][i].id = seq_file_info']_vars

\* C30: a directory move needs no vector action.  After a Moved-directory
\* event src -> dest, a rename of the directory itself included, the
\* collection of the new directory (dest/<basename(dest)>.db) holds the
\* entries of the files directly in it: find_by_id on that collection gives,
\* for each such file that had entries in the collection of src, those
\* entries.
C30_DirectoryMoveKeepsEntries ==
    [][Handled(event', outcome', "moved", TRUE) =>
         \A r \in file_info :
             (r.is_dir = 0 /\ Dirname(r.file_path) = event'.src_path
                /\ EntriesOf(vdb, DbName(event'.src_path), r.id) # <<>>) =>
               LET look == find_by_id(fs', vdb', r.id, DbName(event'.dest_path))
               IN /\ ~look.raised /\ ~look.none
                  /\ look.res = EntriesOf(vdb, DbName(event'.src_path), r.id)]_vars

\* C31: the two initial walks agree.  Over the same tree of plain-text files
\* and files with a binary extension, the stores shell.start_command_c
\* leaves are those observer.start_command_c leaves: the same records, the
\* same edges, and in every collection the same entries with the same ids.
C31_WalksAgree ==
    /\ call.op = "shell.start_command_c" => Stores = start_command_c(fs, <<>>, Root).st
    /\ call.op = "observer.start_command_c" => Stores = shell_start_command_c(fs, <<>>, Root)

\* the ids of the rows of table fi
Ids(fi) == {r.id : r \in fi}

\* C32: identifiers are never reused.  After the walk has initialized the
\* database, every id given to a new record is greater than every id given
\* before, rows deleted by delete_directory_and_subdirectories included:
\* the sequence of the table never goes back, an id that appears in the
\* table is above the sequence as it was, no two rows share an id, and no
\* entry of a collection carries an id above the sequence.
C32_IdsNeverReused ==
    [][event'.kind \in {"created", "deleted", "moved"} =>
         /\ seq_file_info' >= seq_file_info
         /\ \A i \in Ids(file_info') \ Ids(file_info) : i > seq_file_info
         /\ \A i \in Ids(file_info) : i <= seq_file_info
         /\ Cardinality(Ids(file_info')) = Cardinality(file_info')
         /\ \A d \in DOMAIN vdb' :
               \A k \in 1..Len(vdb'[d]) : vdb'[d][k].id <= seq_file_info']_vars

\* a record was inserted after a Deleted-directory event had removed the
\* rows with the highest ids, and its id is above theirs
C32_Witness ==
    /\ event.kind = "created" /\ outcome = "ok"
    /\ seq_file_info \in Ids(file_info)
    /\ \E i \in 1..(seq_file_info - 1) :
          /\ i \notin Ids(file_info)
          /\ \A j \in Ids(file_info) \ {seq_file_info} : j < i

\* C33: creating a directory does not touch its parent's vectors.  A
\* Created-directory event for P leaves the collection of the parent of P
\* with the entries it held.
C33_ParentVectorsKept ==
    [][Handled(event', outcome', "created", TRUE) =>
         LET parent == DbName(Dirname(event'.src_path))
         IN has_collection(vdb, parent) =>
              has_collection(vdb', parent) /\ vdb'[parent] = vdb[parent]]_vars

\* C34: a directory delete leaves what is not below it alone.  After a
\* Deleted-directory event for D, every record and every edge whose path is
\* neither D nor below D is still there, unchanged.
C34_DeleteLeavesOthers ==
    [][Handled(event', outcome', "deleted", TRUE) =>
         LET D == event'.src_path
         IN /\ \A r \in file_info : ~IsUnder(r.file_path, D) => r \in file_info'
            /\ \A e \in directory_structure :
                  ~IsUnder(e.dir_path, D) => e \in directory_structure']_vars

\* C35: the filter of the walk and that of the watcher agree.  After a walk
\* that ends without error, an entry below the root has no record exactly
\* when _should_ignore drops a Created event for its path.
C35_FiltersAgree ==
    [][(event'.kind = "walk" /\ outcome' = "ok") =>
         \A p \in DOMAIN fs \ {Root} :
             (\A r \in file_info' : r.file_path # p) <=> _should_ignore(p)]_vars

====
